---- MODULE Spec2Model ----
(***************************************************************************)
(* Verification model of the MarkovExplorer solver layer                   *)
(* (mdp-viz/src/lib/optimizer.ts, types/mdp.ts).                           *)
(*                                                                         *)
(* Numbers.  A JavaScript number is modelled by an exact rational <<n, d>> *)
(* in lowest terms with d > 0; -Infinity is <<-1, 0>>.  Every input of the *)
(* model (rewards, probabilities, discount factors, tolerances) is a       *)
(* rational, and the solvers only add, subtract, multiply and compare.     *)
(*                                                                         *)
(* Optional values.  A JavaScript value that may be undefined is a         *)
(* sequence of length at most one: <<>> is undefined, <<v>> is v.          *)
(***************************************************************************)
EXTENDS Integers, Sequences, FiniteSets, TLC

VARIABLES
    mdp,        \* the MDP handed to the operation under analysis
    startState, \* the start state handed to the operation
    config,     \* the OptimizationConfig handed to the operation
    callback,   \* the OptimizationCallback: "none", "ok" or "throws"
    vi,         \* locals and result of valueIteration
    pi,         \* locals and result of policyIteration
    rob,        \* locals and result of robustOptimizeMDP
    sweep,      \* locals and result of robustOptimizeMDPConfiguration
    sim,        \* locals and result of simulateEpisode (sim.ts)
    run,        \* one call of a solver or of calculateConfidence, and its result
    page,       \* state of the Home component (app/page.tsx)
    agent,      \* state of the AgentOptimizer component
    mc,         \* locals and result of runMonteCarlo (sim.ts)
    tuner       \* state of the HyperparameterTuner component

\* the variables of the components and of runMonteCarlo, which the solvers
\* and simulateEpisode do not touch
components == <<page, agent, mc, tuner>>

vars == <<mdp, startState, config, callback, vi, pi, rob, sweep, sim, run, components>>

(***************************************************************************)
(* Bounds of the model                                                     *)
(***************************************************************************)
\* largest config.maxIterations the model hands to a solver
MaxIter == 3

\* largest config.maxIterations on a cyclic MDP under the default gamma
MaxDecimalSweeps == 2

(***************************************************************************)
(* Optional values                                                         *)
(***************************************************************************)
Undef == <<>>

Some(v) == <<v>>

\* JavaScript's  o ?? d
OrElse(o, d) == IF o = <<>> THEN d ELSE o[1]

(***************************************************************************)
(* Rational arithmetic                                                     *)
(***************************************************************************)
\* The element of a one-element set.  Only({e(x) : x \in {v}}) is e(v) with
\* v computed once, wherever e uses x: a loop's state is passed on this way.
Only(S) == CHOOSE x \in S : TRUE

RECURSIVE GCD(_, _)
GCD(a, b) == IF b = 0 THEN a ELSE Only({GCD(b, r) : r \in {a % b}})

IAbs(n) == IF n < 0 THEN -n ELSE n

Rat(n, d) ==
    Only({IF g = 0 THEN <<0, 1>> ELSE <<s * (n \div g), s * (d \div g)>>
          : g \in {GCD(IAbs(n), IAbs(d))}, s \in {IF d < 0 THEN -1 ELSE 1}})

R(n) == <<n, 1>>

Zero == <<0, 1>>

NegInf == <<-1, 0>>

IsFinite(a) == a[2] # 0

Lcm(a, b) == (a \div GCD(a, b)) * b

RAdd(a, b) ==
    Only({Only({Rat(n, l) : n \in {x[1] * (l \div x[2]) + y[1] * (l \div y[2])}})
          : x \in {a}, y \in {b}, l \in {Lcm(a[2], b[2])}})

RNeg(a) == <<-a[1], a[2]>>

RSub(a, b) == RAdd(a, RNeg(b))

RMul(a, b) ==
    Only({IF x[1] = 0 \/ y[1] = 0 THEN Zero
          ELSE Only({Only({Rat(n, d) : n \in {(x[1] \div g1) * (y[1] \div g2)},
                                      d \in {(x[2] \div g2) * (y[2] \div g1)}})
                     : g1 \in {GCD(IAbs(x[1]), y[2])},
                       g2 \in {GCD(IAbs(y[1]), x[2])}})
          : x \in {a}, y \in {b}})

RInv(a) == Rat(a[2], a[1])

RDiv(a, b) == RMul(a, RInv(b))

\* n1/d1 < n2/d2 for d1, d2 > 0, by comparing the integer parts and then the
\* reciprocals of the fractional parts (no product is formed)
RECURSIVE FracLess(_, _, _, _)
FracLess(n1, d1, n2, d2) ==
    Only({IF q1 # q2 THEN q1 < q2
          ELSE IF r2 = 0 THEN FALSE
          ELSE IF r1 = 0 THEN TRUE
          ELSE FracLess(d2, r2, d1, r1)
          : q1 \in {n1 \div d1}, q2 \in {n2 \div d2},
            r1 \in {n1 % d1}, r2 \in {n2 % d2}})

\* a < b; with -Infinity on either side the comparison is JavaScript's
RLt(a, b) ==
    Only({IF ~IsFinite(x) THEN IsFinite(y)
          ELSE IF ~IsFinite(y) THEN FALSE
          ELSE FracLess(x[1], x[2], y[1], y[2])
          : x \in {a}, y \in {b}})

RGt(a, b) == RLt(b, a)

RLe(a, b) == ~RLt(b, a)

RAbs(a) == <<IAbs(a[1]), a[2]>>

\* Math.max(a, b)
RMax(a, b) == IF RLt(a, b) THEN b ELSE a

\* Math.min(a, b)
RMin(a, b) == IF RLt(b, a) THEN b ELSE a

\* Math.max(...xs) of a sequence; -Infinity for the empty sequence
RECURSIVE RMaxSeq(_)
RMaxSeq(xs) == IF xs = <<>> THEN NegInf ELSE RMax(Head(xs), RMaxSeq(Tail(xs)))

(***************************************************************************)
(* MDP model: types/mdp.ts                                                 *)
(*                                                                         *)
(* An MDP is [states, transitions, gamma].  states is optional (an untyped *)
(* caller can leave it out) and holds the sequence mdp.states.             *)
(* transitions is the sequence of the entries of mdp.transitions in        *)
(* Object.keys order, each [state, action, outcomes] for the key           *)
(* "state|action"; outcomes is a sequence of [nextState, probability,      *)
(* reward] with reward optional.  gamma is optional.                       *)
(***************************************************************************)
RECURSIVE Dedup(_)
Dedup(xs) ==
    IF xs = <<>> THEN <<>>
    ELSE LET rest == Dedup(SelectSeq(Tail(xs), LAMBDA y : y # Head(xs)))
         IN  <<Head(xs)>> \o rest

Actions(entries) == [i \in 1..Len(entries) |-> entries[i].action]

\* actionsFromState(mdp, state): the actions of the keys of state, in key
\* order, each once
actionsFromState(m, state) ==
    Dedup(Actions(SelectSeq(m.transitions, LAMBDA e : e.state = state)))

\* transitionsFor(mdp, state, action): mdp.transitions[key] ?? []
transitionsFor(m, state, action) ==
    LET hit == SelectSeq(m.transitions,
                         LAMBDA e : e.state = state /\ e.action = action)
    IN  IF hit = <<>> THEN <<>> ELSE hit[Len(hit)].outcomes

Range(f) == {f[i] : i \in DOMAIN f}

\* the states of mdp.states as a set (the keys of a per-state object)
StateSet(m) == Range(OrElse(m.states, <<>>))

\* v[s] ?? 0 on an object keyed by state
Lookup(v, s) == IF s \in DOMAIN v THEN v[s] ELSE Zero

(***************************************************************************)
(* Shared solver arithmetic: optimizer.ts                                  *)
(***************************************************************************)
DefaultGamma == <<9, 10>>

DefaultTolerance == <<1, 1000000>>

DefaultMaxIterations == 1000

\* const { maxIterations = 1000 } = config
MaxIterationsOf(c) == OrElse(c.maxIterations, DefaultMaxIterations)

\* const { tolerance = 1e-6 } = config
ToleranceOf(c) == OrElse(c.tolerance, DefaultTolerance)

\* faulty variant: the default discount is 1.0, as in the simulator
MutGammaOf(m, c) == OrElse(c.gamma, OrElse(m.gamma, <<1, 1>>))

\* const { gamma = mdp.gamma ?? 0.9 } = config
GammaOf(m, c) == OrElse(c.gamma, OrElse(m.gamma, DefaultGamma))

\* faulty variant: an absent reward counts as 1
RECURSIVE MutSumOutcomes(_, _, _)
MutSumOutcomes(outs, g, v) ==
    IF outs = <<>> THEN Zero
    ELSE LET t == outs[Len(outs)]
             term == RMul(t.probability,
                          RAdd(OrElse(t.reward, <<1, 1>>),
                               RMul(g, Lookup(v, t.nextState))))
         IN  RAdd(MutSumOutcomes(SubSeq(outs, 1, Len(outs) - 1), g, v), term)

\* actionValue += probability * ((reward ?? 0) + gamma * (V[nextState] ?? 0))
RECURSIVE SumOutcomes(_, _, _)
SumOutcomes(outs, g, v) ==
    IF outs = <<>> THEN Zero
    ELSE LET t == outs[Len(outs)]
             term == RMul(t.probability,
                          RAdd(OrElse(t.reward, Zero),
                               RMul(g, Lookup(v, t.nextState))))
         IN  RAdd(SumOutcomes(SubSeq(outs, 1, Len(outs) - 1), g, v), term)

ActionValue(m, g, v, s, a) == SumOutcomes(transitionsFor(m, s, a), g, v)

\* The loop   let maxValue = -Infinity; let bestAction = actions[0];
\*            for (action of actions) if (actionValue > maxValue) {...}
\* run over actions[1..n]: the running maximum and the action that set it.
\* faulty variant: the comparison is >=, so the last action attaining the maximum wins
RECURSIVE MutGreedyLoop(_, _, _, _, _, _)
MutGreedyLoop(m, g, v, s, acts, n) ==
    IF n = 0 THEN [maxValue |-> NegInf, bestAction |-> acts[1]]
    ELSE LET prev == MutGreedyLoop(m, g, v, s, acts, n - 1)
             av == SumOutcomes(transitionsFor(m, s, acts[n]), g, v)
         IN  IF RLe(prev.maxValue, av)
             THEN [maxValue |-> av, bestAction |-> acts[n]]
             ELSE prev

RECURSIVE GreedyLoop(_, _, _, _, _, _)
GreedyLoop(m, g, v, s, acts, n) ==
    IF n = 0 THEN [maxValue |-> NegInf, bestAction |-> acts[1]]
    ELSE Only({IF RGt(av, prev.maxValue)
               THEN [maxValue |-> av, bestAction |-> acts[n]]
               ELSE prev
               : prev \in {GreedyLoop(m, g, v, s, acts, n - 1)},
                 av \in {ActionValue(m, g, v, s, acts[n])}})

Greedy(m, g, v, s) ==
    LET acts == actionsFromState(m, s) IN GreedyLoop(m, g, v, s, acts, Len(acts))

\* states with at least one available action
Deciding(m) == {s \in StateSet(m) : actionsFromState(m, s) # <<>>}

\* the greedy policy of a value function: first action attaining the maximum
GreedyPolicy(m, g, v) == [s \in Deciding(m) |-> Greedy(m, g, v, s).bestAction]

(***************************************************************************)
(* valueIteration: optimizer.ts 52-185                                     *)
(***************************************************************************)
\* states.forEach(state => valueFunction[state] = 0)
ZeroValues(m) == [s \in StateSet(m) |-> Zero]

\* faulty variant: the difference of the state updated last is kept
MutNextDelta(delta, maxValue, oldValue) == RAbs(RSub(maxValue, oldValue))

\* line 99: delta = Math.max(delta, Math.abs(maxValue - oldValue))
NextDelta(delta, maxValue, oldValue) == RMax(delta, RAbs(RSub(maxValue, oldValue)))

\* One sweep (lines 74-100) over states[i..]: values are updated in place, so
\* later states of the sweep read the values already written by it.
RECURSIVE VISweepFrom(_, _, _, _, _)
VISweepFrom(m, g, v, delta, i) ==
    LET states == OrElse(m.states, <<>>) IN
    IF i > Len(states) THEN [valueFunction |-> v, delta |-> delta]
    ELSE IF actionsFromState(m, states[i]) = <<>>
         THEN VISweepFrom(m, g, v, delta, i + 1)
         ELSE LET s == states[i] IN
              Only({VISweepFrom(m, g, [v EXCEPT ![s] = maxValue],
                                NextDelta(delta, maxValue, v[s]), i + 1)
                    : maxValue \in {Greedy(m, g, v, s).maxValue}})

\* faulty variant: the comparison is inverted
MutConverged(delta, tol) == RLt(tol, delta)

\* line 143: if (delta < tolerance) break
Converged(delta, tol) == RLt(delta, tol)

VISweepOnce(m, g, v) == VISweepFrom(m, g, v, Zero, 1)

\* lines 148-172: the extraction loop computes maxValue per state and then
\* stores actions[0]
VIExtractPolicy(m, g, v) == [s \in Deciding(m) |-> actionsFromState(m, s)[1]]

\* Math.max(...Object.values(valueFunction))
BestValueOf(m, v) ==
    LET states == OrElse(m.states, <<>>)
    IN  RMaxSeq([i \in 1..Len(states) |-> v[states[i]]])

\* lines 174-184
VIResult(m, g, v, hist) ==
    LET p == VIExtractPolicy(m, g, v)
    IN  [bestPolicy |-> p, bestValue |-> BestValueOf(m, v),
         iterations |-> Len(hist), convergenceHistory |-> hist,
         policyHistory |-> <<p>>, valueFunction |-> v, deltaHistory |-> hist]

\* the loop of lines 73-146 from sweep number `iteration` on (no callback)
RECURSIVE VILoop(_, _, _, _, _, _, _)
VILoop(m, g, tol, maxIter, iteration, v, hist) ==
    IF iteration >= maxIter THEN VIResult(m, g, v, hist)
    ELSE Only({LET h == Append(hist, sw.delta)
               IN  IF Converged(sw.delta, tol) THEN VIResult(m, g, sw.valueFunction, h)
                   ELSE VILoop(m, g, tol, maxIter, iteration + 1, sw.valueFunction, h)
               : sw \in {VISweepOnce(m, g, v)}})

\* valueIteration(mdp, config) on an MDP whose states are defined
RunVI(m, c) ==
    VILoop(m, GammaOf(m, c), ToleranceOf(c), MaxIterationsOf(c), 0, ZeroValues(m), <<>>)

\* optimizeMDPConfiguration lines 976-987: every outcome's reward becomes
\* (reward ?? 0) * multiplier; states and gamma are copied
ScaleRewards(m, k) ==
    [m EXCEPT !.transitions =
        [i \in 1..Len(m.transitions) |->
            [m.transitions[i] EXCEPT !.outcomes =
                [j \in 1..Len(m.transitions[i].outcomes) |->
                    [m.transitions[i].outcomes[j] EXCEPT
                        !.reward = Some(RMul(OrElse(@, Zero), k))]]]]]

(***************************************************************************)
(* Inputs: the MDPs and configurations the solvers are run on              *)
(***************************************************************************)
One == <<1, 1>>

Half == <<1, 2>>

Out(n, p, r) == [nextState |-> n, probability |-> p, reward |-> Some(R(r))]

\* an outcome whose reward field is absent
OutNoReward(n, p) == [nextState |-> n, probability |-> p, reward |-> Undef]

Entry(s, a, outs) == [state |-> s, action |-> a, outcomes |-> outs]

Rewards == {-1, 1}

\* the outcome lists of key "A|x": one certain outcome, or a fair coin
AxOutcomes ==
    {<<Out(n, One, r)>> : n \in {"A", "B", "C"}, r \in Rewards}
        \cup {<<Out("B", Half, 1), OutNoReward("C", Half)>>}

\* key "A|y": absent, or one certain outcome
AyEntries ==
    {<<>>} \cup {<<Entry("A", "y", <<Out(n, One, r)>>)>> : n \in {"B", "C"}, r \in Rewards}

\* key "B|x": absent, or one certain outcome
BxEntries ==
    {<<>>, <<Entry("B", "x", <<Out("C", One, 10)>>)>>,
     <<Entry("B", "x", <<Out("C", One, -1)>>)>>,
     <<Entry("B", "x", <<Out("A", One, 0)>>)>>}

\* (mdp.gamma, config.gamma): neither set (the default 0.9 applies), the
\* MDP's own discount, and a configured discount that overrides the MDP's
GammaPairs ==
    {<<Undef, Undef>>, <<Some(Half), Undef>>, <<Some(One), Undef>>,
     <<Some(One), Some(Half)>>}

MdpShapes ==
    {<<Entry("A", "x", ax)>> \o ay \o bx :
        ax \in AxOutcomes, ay \in AyEntries, bx \in BxEntries}

MkMdp(trans, g) ==
    [states |-> Some(<<"A", "B", "C">>), transitions |-> trans, gamma |-> g]

MkConfig(n, tol, g) ==
    [maxIterations |-> Some(n), tolerance |-> tol, gamma |-> g,
     learningRate |-> Undef, epsilon |-> Undef, episodes |-> Undef,
     lambda |-> Undef]

Tolerances == {Undef, Some(Half)}

Idle == [pc |-> "idle"]

\* no component is in use
ComponentsIdle == page = Idle /\ agent = Idle /\ mc = Idle /\ tuner = Idle

(***************************************************************************)
(* valueIteration as a state machine: one action per sweep                 *)
(***************************************************************************)
\* lines 57-71: read the configuration, zero the value function
VIStart ==
    /\ vi.pc = "start"
    /\ vi' = [pc |-> "loop", iteration |-> 0, valueFunction |-> ZeroValues(mdp),
              deltaHistory |-> <<>>, convergenceHistory |-> <<>>,
              progress |-> <<>>]
    /\ UNCHANGED <<mdp, startState, config, callback, pi, rob, sweep, sim, run, components>>

\* lines 73-146: one iteration of the for loop: the sweep, the two pushes,
\* the progress report and the convergence test
VISweep ==
    /\ vi.pc = "loop"
    /\ vi.iteration < MaxIterationsOf(config)
    /\ LET g == GammaOf(mdp, config)
           sw == VISweepOnce(mdp, g, vi.valueFunction)
           report == [iteration |-> vi.iteration, delta |-> sw.delta,
                      valueFunction |-> sw.valueFunction,
                      policy |-> GreedyPolicy(mdp, g, sw.valueFunction),
                      method |-> "Value Iteration"]
       IN  vi' = [vi EXCEPT
                    !.valueFunction = sw.valueFunction,
                    !.deltaHistory = Append(@, sw.delta),
                    !.convergenceHistory = Append(@, sw.delta),
                    !.progress = IF callback = "none" THEN @ ELSE Append(@, report),
                    !.iteration = IF Converged(sw.delta, ToleranceOf(config)) THEN @ ELSE @ + 1,
                    !.pc = IF callback = "throws" THEN "thrown"
                           ELSE IF Converged(sw.delta, ToleranceOf(config)) THEN "extract"
                           ELSE "loop"]
    /\ UNCHANGED <<mdp, startState, config, callback, pi, rob, sweep, sim, run, components>>

\* lines 148-184: the loop is left (by break or by its bound); extract the
\* policy and return the result
VIReturn ==
    /\ \/ vi.pc = "extract"
       \/ vi.pc = "loop" /\ vi.iteration >= MaxIterationsOf(config)
    /\ vi' = [pc |-> "done", progress |-> vi.progress,
              result |-> VIResult(mdp, GammaOf(mdp, config),
                                  vi.valueFunction, vi.deltaHistory)]
    /\ UNCHANGED <<mdp, startState, config, callback, pi, rob, sweep, sim, run, components>>

\* the order A, B, C of the states
Rank(s) == CASE s = "A" -> 1 [] s = "B" -> 2 [] OTHER -> 3

\* no outcome leads back to its own state or to an earlier one
IsAcyclic(trans) ==
    \A i \in 1..Len(trans) : \A j \in 1..Len(trans[i].outcomes) :
        Rank(trans[i].outcomes[j].nextState) > Rank(trans[i].state)

\* On a cyclic MDP under the default gamma 0.9 every sweep multiplies the
\* denominators of the values by ten: such runs get at most MaxDecimalSweeps
\* sweeps.
InitVI ==
    /\ \E trans \in MdpShapes, gp \in GammaPairs, n \in 0..MaxIter, tol \in Tolerances :
          /\ (gp = <<Undef, Undef>> /\ ~IsAcyclic(trans)) => n <= MaxDecimalSweeps
          /\ mdp = MkMdp(trans, gp[1])
          /\ config = MkConfig(n, tol, gp[2])
    /\ startState = "A"
    /\ callback \in {"none", "ok", "throws"}
    /\ vi = [pc |-> "start"]
    /\ pi = Idle
    /\ rob = Idle
    /\ sweep = Idle
    /\ sim = Idle
    /\ run = Idle
    /\ ComponentsIdle

NextVI == VIStart \/ VISweep \/ VIReturn

SpecVI == InitVI /\ [][NextVI]_vars

(***************************************************************************)
(* policyIteration: optimizer.ts 188-296                                   *)
(***************************************************************************)
\* the cap on the sweeps of one policy evaluation (line 222)
EvalCap == 100

\* faulty variant: the action is drawn from the actions of all states
MutInitialPolicies(m) ==
    [Deciding(m) -> {e.action : e \in Range(m.transitions)}]

\* lines 205-212: the policies the random initialisation can produce
InitialPolicies(m) ==
    {p \in [Deciding(m) -> {e.action : e \in Range(m.transitions)}] :
        \A s \in Deciding(m) : p[s] \in Range(actionsFromState(m, s))}

\* lines 224-240: one evaluation sweep over states[i..], values updated in
\* place; a state without a policy action is skipped
RECURSIVE PIEvalSweepFrom(_, _, _, _, _, _)
PIEvalSweepFrom(m, g, p, v, delta, i) ==
    LET states == OrElse(m.states, <<>>) IN
    IF i > Len(states) THEN [valueFunction |-> v, delta |-> delta]
    ELSE IF states[i] \notin DOMAIN p
         THEN PIEvalSweepFrom(m, g, p, v, delta, i + 1)
         ELSE LET s == states[i] IN
              Only({PIEvalSweepFrom(m, g, p, [v EXCEPT ![s] = newValue],
                                    RMax(delta, RAbs(RSub(newValue, v[s]))), i + 1)
                    : newValue \in {ActionValue(m, g, v, s, p[s])}})

\* lines 221-243: sweeps number evalIter.. of the evaluation loop; delta is
\* the delta of the last sweep performed
RECURSIVE PIEvalLoop(_, _, _, _, _, _, _)
PIEvalLoop(m, g, tol, p, v, delta, evalIter) ==
    IF evalIter >= EvalCap THEN [valueFunction |-> v, delta |-> delta]
    ELSE Only({IF RLt(sw.delta, tol) THEN sw
               ELSE PIEvalLoop(m, g, tol, p, sw.valueFunction, sw.delta, evalIter + 1)
               : sw \in {PIEvalSweepFrom(m, g, p, v, Zero, 1)}})

\* lines 216-243
PIEvaluate(m, g, tol, p) == PIEvalLoop(m, g, tol, p, ZeroValues(m), Zero, 0)

\* lines 246-274: every state with actions gets its greedy action
PIImprove(m, g, v, p) ==
    [s \in DOMAIN p \cup Deciding(m) |->
        IF s \in Deciding(m) THEN Greedy(m, g, v, s).bestAction ELSE p[s]]

\* Math.max(...Object.values(valueFunction)) where valueFunction may be {}
PIBestValue(m, v) ==
    LET states == SelectSeq(OrElse(m.states, <<>>), LAMBDA s : s \in DOMAIN v)
    IN  RMaxSeq([i \in 1..Len(states) |-> v[states[i]]])

PIStart ==
    /\ pi.pc = "start"
    /\ \E p \in InitialPolicies(mdp) :
          pi' = [pc |-> "loop", iteration |-> 0, policy |-> p, policy0 |-> p,
                 valueFunction |-> <<>>, delta |-> Zero, evalIter |-> 0,
                 policyHistory |-> <<>>,
                 deltaHistory |-> <<>>, convergenceHistory |-> <<>>]
    /\ UNCHANGED <<mdp, startState, config, callback, vi, rob, sweep, sim, run, components>>

\* lines 214-221: an outer sweep begins: the value function is zeroed
PIEvalBegin ==
    /\ pi.pc = "loop"
    /\ pi.iteration < MaxIterationsOf(config)
    /\ pi' = [pi EXCEPT !.pc = "eval", !.valueFunction = ZeroValues(mdp),
                        !.delta = Zero, !.evalIter = 0]
    /\ UNCHANGED <<mdp, startState, config, callback, vi, rob, sweep, sim, run, components>>

\* lines 222-243: one sweep of the evaluation loop and its break test
PIEvalSweep ==
    /\ pi.pc = "eval"
    /\ pi.evalIter < EvalCap
    /\ LET sw == PIEvalSweepFrom(mdp, GammaOf(mdp, config), pi.policy,
                                 pi.valueFunction, Zero, 1)
       IN  pi' = [pi EXCEPT
                    !.valueFunction = sw.valueFunction,
                    !.delta = sw.delta,
                    !.evalIter = @ + 1,
                    !.pc = IF RLt(sw.delta, ToleranceOf(config))
                           THEN "improve" ELSE "eval"]
    /\ UNCHANGED <<mdp, startState, config, callback, vi, rob, sweep, sim, run, components>>

\* lines 245-282: the evaluation loop is left (by break or by its cap); the
\* improvement pass, the three pushes and the stability test
PIImproveStep ==
    /\ \/ pi.pc = "improve"
       \/ pi.pc = "eval" /\ pi.evalIter >= EvalCap
    /\ LET improved == PIImprove(mdp, GammaOf(mdp, config), pi.valueFunction,
                                 pi.policy)
           policyStable == improved = pi.policy
       IN  pi' = [pi EXCEPT
                    !.policy = improved,
                    !.policyHistory = Append(@, improved),
                    !.deltaHistory = Append(@, pi.delta),
                    !.convergenceHistory = Append(@, pi.delta),
                    !.iteration = IF policyStable THEN @ ELSE @ + 1,
                    !.pc = IF policyStable THEN "return" ELSE "loop"]
    /\ UNCHANGED <<mdp, startState, config, callback, vi, rob, sweep, sim, run, components>>

\* lines 285-295
PIReturn ==
    /\ \/ pi.pc = "return"
       \/ pi.pc = "loop" /\ pi.iteration >= MaxIterationsOf(config)
    /\ pi' = [pc |-> "done", policy0 |-> pi.policy0,
              stable |-> pi.pc = "return",
              result |-> [bestPolicy |-> pi.policy,
                          bestValue |-> PIBestValue(mdp, pi.valueFunction),
                          iterations |-> Len(pi.deltaHistory),
                          convergenceHistory |-> pi.convergenceHistory,
                          policyHistory |-> pi.policyHistory,
                          valueFunction |-> pi.valueFunction,
                          deltaHistory |-> pi.deltaHistory]]
    /\ UNCHANGED <<mdp, startState, config, callback, vi, rob, sweep, sim, run, components>>

InitPI ==
    /\ \E trans \in MdpShapes, gp \in GammaPairs, n \in 0..MaxIter, tol \in Tolerances :
          /\ gp = <<Undef, Undef>> => IsAcyclic(trans)
          /\ mdp = MkMdp(trans, gp[1])
          /\ config = MkConfig(n, tol, gp[2])
    /\ startState = "A"
    /\ callback = "none"
    /\ pi = [pc |-> "start"]
    /\ vi = Idle
    /\ rob = Idle
    /\ sweep = Idle
    /\ sim = Idle
    /\ run = Idle
    /\ ComponentsIdle

NextPI == PIStart \/ PIEvalBegin \/ PIEvalSweep \/ PIImproveStep \/ PIReturn

SpecPI == InitPI /\ [][NextPI]_vars

(***************************************************************************)
(* Pure forms of the solvers run by robustOptimizeMDP                      *)
(***************************************************************************)
\* policyIteration's outer loop (lines 214-283) from sweep `iteration` on
RECURSIVE PILoop(_, _, _, _, _, _, _, _)
PILoop(m, g, tol, maxIter, iteration, p, v, hist) ==
    IF iteration >= maxIter
    THEN [policy |-> p, valueFunction |-> v, policyHistory |-> hist.policies,
          deltaHistory |-> hist.deltas]
    ELSE Only({Only({IF improved = p
                     THEN [policy |-> improved, valueFunction |-> ev.valueFunction,
                           policyHistory |-> h.policies, deltaHistory |-> h.deltas]
                     ELSE PILoop(m, g, tol, maxIter, iteration + 1, improved,
                                 ev.valueFunction, h)
                     : improved \in {PIImprove(m, g, ev.valueFunction, p)},
                       h \in {[policies |-> Append(hist.policies,
                                                  PIImprove(m, g, ev.valueFunction, p)),
                               deltas |-> Append(hist.deltas, ev.delta)]}})
               : ev \in {PIEvaluate(m, g, tol, p)}})

\* policyIteration(mdp, config) started from the random policy p0
RunPI(m, c, p0) ==
    LET r == PILoop(m, GammaOf(m, c), ToleranceOf(c), MaxIterationsOf(c), 0, p0,
                    <<>>, [policies |-> <<>>, deltas |-> <<>>])
    IN  [bestPolicy |-> r.policy, bestValue |-> PIBestValue(m, r.valueFunction),
         iterations |-> Len(r.deltaHistory), convergenceHistory |-> r.deltaHistory,
         policyHistory |-> r.policyHistory, valueFunction |-> r.valueFunction,
         deltaHistory |-> r.deltaHistory]

(***************************************************************************)
(* Outcome sampling (lines 349-363, 1206-1220)                             *)
(***************************************************************************)
\* cumulative probability of outs[1..i]
RECURSIVE Cumulative(_, _)
Cumulative(outs, i) ==
    IF i = 0 THEN Zero ELSE RAdd(Cumulative(outs, i - 1), outs[i].probability)

\* The indices the sampling loop can select for some draw r in [0, 1): the
\* first i with r <= acc_i, or the last index when no acc_i reaches r.
SampleIndices(outs) ==
    {i \in 1..Len(outs) :
        \/ i = 1
        \/ /\ RLt(Cumulative(outs, i - 1), Cumulative(outs, i))
           /\ RLt(Cumulative(outs, i - 1), One)
        \/ i = Len(outs) /\ RLt(Cumulative(outs, Len(outs)), One)}

\* the outcome selected from a list with one certain outcome
Sampled(outs) == outs[CHOOSE i \in SampleIndices(outs) : TRUE]

\* every outcome list of the MDP has exactly one selectable outcome
IsDeterministic(m) ==
    \A e \in Range(m.transitions) :
        e.outcomes # <<>> => Cardinality(SampleIndices(e.outcomes)) = 1

(***************************************************************************)
(* simulateEpisodeWithPolicy: optimizer.ts 1187-1229                       *)
(***************************************************************************)
\* the step cap of a simulated episode (line 1191)
EpisodeMaxSteps == 100

\* mdp.gamma ?? 0.9 (line 1195): the configuration is not consulted
EpisodeGamma(m) == OrElse(m.gamma, DefaultGamma)

\* the loop of lines 1198-1226 on a deterministic MDP
RECURSIVE EpisodeFrom(_, _, _, _, _, _)
EpisodeFrom(m, p, state, discount, totalReward, step) ==
    IF step >= EpisodeMaxSteps \/ state \notin DOMAIN p THEN totalReward
    ELSE LET outs == transitionsFor(m, state, p[state]) IN
         IF outs = <<>> THEN totalReward
         ELSE Only({EpisodeFrom(m, p, t.nextState, nextDiscount, nextTotal, step + 1)
                    : t \in {Sampled(outs)},
                      nextDiscount \in {RMul(discount, EpisodeGamma(m))},
                      nextTotal \in {RAdd(totalReward,
                                          RMul(discount,
                                               OrElse(Sampled(outs).reward, Zero)))}})

simulateEpisodeWithPolicy(m, p, start) == EpisodeFrom(m, p, start, One, Zero, 0)

(***************************************************************************)
(* validatePolicyWithMonteCarlo: optimizer.ts 1232-1267                    *)
(***************************************************************************)
\* the default number of validation episodes (line 1236)
ValidationEpisodes == 1000

ISqrt(n) == CHOOSE k \in 0..n : k * k = n

\* Math.sqrt on a rational with square numerator and denominator
RSqrt(a) == <<ISqrt(a[1]), ISqrt(a[2])>>

\* On a deterministic MDP every episode returns the same reward, so the
\* sums of lines 1247-1256 are multiples of that reward.
validatePolicyWithMonteCarlo(m, p, start) ==
    Only({LET n == ValidationEpisodes
              success == RLt(Zero, episodeResult)
              successfulEpisodes == IF success THEN n ELSE 0
              totalPathLength == n * (IF success THEN 50 ELSE 100)
              avgReward == RDiv(RMul(R(n), episodeResult), R(n))
              dev == RSub(episodeResult, avgReward)
              variance == RDiv(RMul(R(n), RMul(dev, dev)), R(n))
          IN  [mcReward |-> avgReward,
               mcStdDev |-> RSqrt(variance),
               successRate |-> Rat(successfulEpisodes, n),
               pathEfficiency |-> RDiv(avgReward, Rat(totalPathLength, n))]
          : episodeResult \in {simulateEpisodeWithPolicy(m, p, start)}})

(***************************************************************************)
(* qLearning: optimizer.ts 299-420.  The random draws make the result a    *)
(* set: every operator below returns the set of outcomes the draws allow;  *)
(* [thrown |-> TRUE] is a TypeError raised by reading qTable[s][a] for a   *)
(* state s that has no row in the table.                                   *)
(***************************************************************************)
DefaultLearningRate == <<1, 10>>

DefaultEpsilon == <<1, 10>>

DefaultEpisodes == 1000

\* the step cap of a learning episode (line 329)
QLMaxSteps == 100

EpisodesOf(c) == OrElse(c.episodes, DefaultEpisodes)

Thrown == [thrown |-> TRUE]

\* lines 317-323
QInit(m) ==
    [s \in StateSet(m) |-> [a \in Range(actionsFromState(m, s)) |-> Zero]]

\* qTable[s][a] ?? 0 for a state s that has a row
QLookup(q, s, a) == IF a \in DOMAIN q[s] THEN q[s][a] ELSE Zero

\* faulty variant: a later action of equal value replaces the best so far
RECURSIVE MutQGreedyLoop(_, _, _, _)
MutQGreedyLoop(q, s, acts, n) ==
    IF n = 1 THEN acts[1]
    ELSE LET best == MutQGreedyLoop(q, s, acts, n - 1)
         IN  IF RLe(QLookup(q, s, best), QLookup(q, s, acts[n])) THEN acts[n] ELSE best

\* actions.reduce((best, current) => Q[current] > Q[best] ? current : best)
\* over acts[1..n]
RECURSIVE QGreedyLoop(_, _, _, _)
QGreedyLoop(q, s, acts, n) ==
    IF n = 1 THEN acts[1]
    ELSE LET best == QGreedyLoop(q, s, acts, n - 1)
         IN  IF RGt(QLookup(q, s, acts[n]), QLookup(q, s, best)) THEN acts[n] ELSE best

\* Math.max(...actions.map(a => qTable[s][a] ?? 0))
QMax(q, s, acts) == RMaxSeq([i \in 1..Len(acts) |-> QLookup(q, s, acts[i])])

RECURSIVE QLEpisode(_, _, _, _, _, _, _, _)
RECURSIVE QLAfterAction(_, _, _, _, _, _, _, _, _)

\* lines 345-380: the rest of a step once the action is chosen
QLAfterAction(m, alpha, g, eps, q, state, totalReward, steps, action) ==
    LET outs == transitionsFor(m, state, action) IN
    IF outs = <<>> THEN {[thrown |-> FALSE, q |-> q, totalReward |-> totalReward]}
    ELSE UNION {
        LET t == outs[i]
            nextState == t.nextState
            reward == OrElse(t.reward, Zero)
            nextActions == actionsFromState(m, nextState)
        IN  IF (nextActions # <<>> /\ nextState \notin DOMAIN q) \/ state \notin DOMAIN q
            THEN {Thrown}
            ELSE LET maxNextQ == IF nextActions = <<>> THEN Zero
                                 ELSE QMax(q, nextState, nextActions)
                     currentQ == QLookup(q, state, action)
                     target == RSub(RAdd(reward, RMul(g, maxNextQ)), currentQ)
                     newQ == RAdd(currentQ, RMul(alpha, target))
                 IN  UNION {QLEpisode(m, alpha, g, eps, q2, nextState, total, steps + 1)
                            : q2 \in {[q EXCEPT ![state] = (action :> newQ) @@ @]},
                              total \in {RAdd(totalReward, reward)}}
        : i \in SampleIndices(outs)}

\* lines 331-381: the while loop from `state` on
QLEpisode(m, alpha, g, eps, q, state, totalReward, steps) ==
    LET acts == actionsFromState(m, state) IN
    IF steps >= QLMaxSteps \/ acts = <<>>
    THEN {[thrown |-> FALSE, q |-> q, totalReward |-> totalReward]}
    ELSE LET explored == IF RLt(Zero, eps) THEN Range(acts) ELSE {}
             mayExploit == RLt(eps, One)
             exploitThrows == mayExploit /\ Len(acts) >= 2 /\ state \notin DOMAIN q
             exploited == IF mayExploit /\ ~exploitThrows
                          THEN {IF Len(acts) = 1 THEN acts[1]
                                ELSE QGreedyLoop(q, state, acts, Len(acts))}
                          ELSE {}
         IN  (IF exploitThrows THEN {Thrown} ELSE {})
                \cup UNION {QLAfterAction(m, alpha, g, eps, q, state, totalReward,
                                          steps, a) : a \in explored \cup exploited}

\* lines 386-419
QLResult(m, q, learningCurve, episodes) ==
    LET bestPolicy == [s \in Deciding(m) |->
                          LET acts == actionsFromState(m, s)
                          IN  QGreedyLoop(q, s, acts, Len(acts))]
        valueFunction == [s \in StateSet(m) |->
                             IF s \in Deciding(m)
                             THEN QMax(q, s, actionsFromState(m, s)) ELSE Zero]
    IN  [bestPolicy |-> bestPolicy, bestValue |-> BestValueOf(m, valueFunction),
         iterations |-> episodes, convergenceHistory |-> learningCurve,
         policyHistory |-> <<bestPolicy>>, valueFunction |-> valueFunction,
         qTable |-> q, learningCurve |-> learningCurve]

\* lines 325-384: episodes number `episode`.. of the learning loop
RECURSIVE QLRun(_, _, _, _, _, _, _, _)
QLRun(m, start, c, alpha, g, q, learningCurve, episode) ==
    IF episode >= EpisodesOf(c)
    THEN {[thrown |-> FALSE, result |-> QLResult(m, q, learningCurve, EpisodesOf(c))]}
    ELSE UNION {
        IF e.thrown THEN {Thrown}
        ELSE QLRun(m, start, c, alpha, g, e.q, Append(learningCurve, e.totalReward),
                   episode + 1)
        : e \in QLEpisode(m, alpha, g, OrElse(c.epsilon, DefaultEpsilon), q, start,
                          Zero, 0)}

\* qLearning(mdp, startState, config) on an MDP whose states are defined
qLearning(m, start, c) ==
    QLRun(m, start, c, OrElse(c.learningRate, DefaultLearningRate), GammaOf(m, c),
          QInit(m), <<>>, 0)

(***************************************************************************)
(* monteCarloPolicySearch: optimizer.ts 1101-1184, on a deterministic MDP  *)
(***************************************************************************)
\* the number of outer rounds (line 1124)
MCRounds == 50

\* the number of trial episodes per alternative action (line 1156)
MCTrialEpisodes == 10

\* the number of integers e >= 0 with e < episodes / 50 (line 1128)
MCEvalEpisodes(episodes) == (episodes + MCRounds - 1) \div MCRounds

\* lines 1149-1164: the alternatives acts[1..n] of `state` tried against the
\* running best; `p` is the policy as the round has changed it so far
RECURSIVE MCTryActions(_, _, _, _, _, _, _)
MCTryActions(m, start, p, state, acts, n, avgReward) ==
    IF n = 0 THEN [bestAction |-> p[state], bestActionReward |-> avgReward]
    ELSE LET testPolicy == [p EXCEPT ![state] = acts[n]]
         IN  Only({IF acts[n] = p[state] THEN prev
                   ELSE IF RGt(testReward, prev.bestActionReward)
                        THEN [bestAction |-> acts[n], bestActionReward |-> testReward]
                        ELSE prev
                   : prev \in {MCTryActions(m, start, p, state, acts, n - 1, avgReward)},
                     testReward \in {RMul(R(MCTrialEpisodes),
                                          simulateEpisodeWithPolicy(m, testPolicy,
                                                                    start))}})

\* lines 1142-1167: the improvement loop over states[i..]
RECURSIVE MCImproveFrom(_, _, _, _, _)
MCImproveFrom(m, start, p, avgReward, i) ==
    LET states == OrElse(m.states, <<>>) IN
    IF i > Len(states) THEN p
    ELSE LET acts == actionsFromState(m, states[i]) IN
         IF Len(acts) <= 1 THEN MCImproveFrom(m, start, p, avgReward, i + 1)
         ELSE Only({MCImproveFrom(m, start, improved, avgReward, i + 1)
                    : improved \in
                        {[p EXCEPT ![states[i]] =
                            MCTryActions(m, start, p, states[i], acts, Len(acts),
                                         avgReward).bestAction]}})

\* lines 1125-1133: the rewards of the evaluation episodes of policy p,
\* added up and divided by episodes / 50
MCAvgReward(m, start, episodes, p) ==
    RDiv(RMul(R(MCEvalEpisodes(episodes)), simulateEpisodeWithPolicy(m, p, start)),
         Rat(episodes, MCRounds))

\* lines 1125-1167: one round on st = [policy, bestPolicy, bestReward,
\* convergenceHistory]
MCRound(m, start, episodes, st) ==
    Only({LET better == RGt(avgReward, st.bestReward)
          IN  [policy |-> MCImproveFrom(m, start, st.policy, avgReward, 1),
               bestPolicy |-> IF better THEN st.policy ELSE st.bestPolicy,
               bestReward |-> IF better THEN avgReward ELSE st.bestReward,
               convergenceHistory |-> Append(st.convergenceHistory, avgReward)]
          : avgReward \in {MCAvgReward(m, start, episodes, st.policy)}})

\* n consecutive rounds of the loop of line 1124, as two halves
RECURSIVE MCRoundsFrom(_, _, _, _, _)
MCRoundsFrom(m, start, episodes, st, n) ==
    IF n = 0 THEN st
    ELSE IF n = 1 THEN MCRound(m, start, episodes, st)
    ELSE Only({MCRoundsFrom(m, start, episodes, mid, n - (n \div 2))
               : mid \in {MCRoundsFrom(m, start, episodes, st, n \div 2)}})

\* monteCarloPolicySearch(mdp, startState, config) started from the random
\* policy p0
monteCarloPolicySearch(m, start, c, p0) ==
    LET st == MCRoundsFrom(m, start, EpisodesOf(c),
                           [policy |-> p0, bestPolicy |-> p0, bestReward |-> NegInf,
                            convergenceHistory |-> <<>>], MCRounds)
    IN  [bestPolicy |-> st.bestPolicy, bestValue |-> st.bestReward,
         iterations |-> Len(st.convergenceHistory),
         convergenceHistory |-> st.convergenceHistory,
         policyHistory |-> <<st.bestPolicy>>,
         valueFunction |-> [s \in StateSet(m) |-> st.bestReward]]

(***************************************************************************)
(* selectBestResult and calculateConfidence: optimizer.ts 1270-1318        *)
(***************************************************************************)
\* lines 1282-1286
Score(validation) ==
    RAdd(RAdd(RMul(validation.mcReward, <<2, 5>>),
              RMul(validation.successRate, <<3, 10>>)),
         RAdd(RMul(RDiv(One, RAdd(One, validation.mcStdDev)), <<1, 5>>),
              RMul(validation.pathEfficiency, <<1, 10>>)))

\* faulty variant: the reduce keeps the later of two equal scores
RECURSIVE MutBestOf(_, _)
MutBestOf(scored, n) ==
    IF n = 1 THEN scored[1]
    ELSE LET best == MutBestOf(scored, n - 1)
         IN  IF RLe(best.score, scored[n].score) THEN scored[n] ELSE best

\* lines 1292-1294: reduce((best, current) => current.score > best.score ?
\* current : best) over scored[1..n]
RECURSIVE BestOf(_, _)
BestOf(scored, n) ==
    IF n = 1 THEN scored[1]
    ELSE Only({IF RGt(scored[n].score, best.score) THEN scored[n] ELSE best
               : best \in {BestOf(scored, n - 1)}})

\* lines 1281-1294, for a non-empty results array
selectBestResult(results) ==
    Only({BestOf(scored, Len(scored))
          : scored \in {[i \in 1..Len(results) |->
                           [method |-> results[i].method, result |-> results[i].result,
                            validation |-> results[i].validation,
                            score |-> Score(results[i].validation)]]}})

\* faulty variant: a zero reward is replaced by a small epsilon
MutConsistencyDenominator(mcReward) ==
    RAbs(IF mcReward = Zero THEN <<1, 1000>> ELSE mcReward)

\* line 1313: Math.abs(mcReward || 1)
ConsistencyDenominator(mcReward) == RAbs(IF mcReward = Zero THEN One ELSE mcReward)

\* lines 1298-1318
calculateConfidence(validation) ==
    LET mcReward == validation.mcReward
        denominator == ConsistencyDenominator(mcReward)
        consistency == RMax(Zero, RSub(One, RDiv(validation.mcStdDev, denominator)))
        efficiency == RMax(Zero, RMin(One, validation.pathEfficiency))
        confidence ==
            RAdd(RAdd(RMul(validation.successRate, <<2, 5>>),
                      RMul(consistency, <<3, 10>>)),
                 RAdd(RMul(efficiency, <<1, 5>>),
                      IF RLt(Zero, mcReward) THEN <<1, 10>> ELSE Zero))
    IN  RMin(One, RMax(Zero, confidence))

(***************************************************************************)
(* robustOptimizeMDP: optimizer.ts 1033-1098                               *)
(***************************************************************************)
\* lines 1039-1060, in run order
Methods ==
    <<"Value Iteration", "Policy Iteration", "Q-Learning", "Monte Carlo Policy Search">>

NoMethodError == "No optimization methods succeeded"

Returned(r) == [thrown |-> FALSE, result |-> r]

\* What method.optimize can do on (m, start, c) with callback cb: return a
\* result or throw.  Every solver begins by iterating mdp.states and throws a
\* TypeError when it is undefined; valueIteration alone calls onProgress (at
\* the end of its first sweep), so a throwing callback makes it throw.
MethodOutcomes(method, m, start, c, cb) ==
    IF m.states = Undef THEN {Thrown}
    ELSE CASE method = "Value Iteration" ->
                IF cb = "throws" /\ MaxIterationsOf(c) >= 1 THEN {Thrown}
                ELSE {Returned(RunVI(m, c))}
           [] method = "Policy Iteration" ->
                {Returned(RunPI(m, c, p0)) : p0 \in InitialPolicies(m)}
           [] method = "Q-Learning" -> qLearning(m, start, c)
           [] OTHER ->
                {Returned(monteCarloPolicySearch(m, start, c, p0)) :
                    p0 \in InitialPolicies(m)}

\* lines 1071-1085: the body of the loop for one method: the candidates it can
\* push (none when it throws)
Candidates(method, m, start, c, cb) ==
    {IF o.thrown THEN <<>>
     ELSE <<[method |-> method, result |-> o.result,
             validation |-> validatePolicyWithMonteCarlo(m, o.result.bestPolicy, start)]>>
     : o \in MethodOutcomes(method, m, start, c, cb)}

\* lines 1069-1086: the ways the loop over the methods can go: pushed[i] is
\* what method i contributed, its candidate or nothing when it threw
CandidateRuns(m, start, c, cb) ==
    {<<p1, p2, p3, p4>> : p1 \in Candidates(Methods[1], m, start, c, cb),
                          p2 \in Candidates(Methods[2], m, start, c, cb),
                          p3 \in Candidates(Methods[3], m, start, c, cb),
                          p4 \in Candidates(Methods[4], m, start, c, cb)}

\* the results array after the loop
ResultsOf(pushed) == pushed[1] \o pushed[2] \o pushed[3] \o pushed[4]

\* lines 1088-1097: the value returned for a non-empty results array
RobustValue(results) ==
    Only({[actualPerformance |-> bestResult.validation.mcReward,
           confidence |-> calculateConfidence(bestResult.validation),
           method |-> bestResult.method,
           validationResults |-> bestResult.validation] @@ bestResult.result
          : bestResult \in {selectBestResult(results)}})

\* lines 1069-1086: the loop over the four methods; a method that threw is
\* logged by name
RobustTry ==
    /\ rob.pc = "try"
    /\ \E pushed \in CandidateRuns(mdp, startState, config, callback) :
          rob' = [pc |-> "select",
                  results |-> ResultsOf(pushed),
                  warned |-> SelectSeq(Methods,
                                LAMBDA n : \E i \in 1..Len(Methods) :
                                    Methods[i] = n /\ pushed[i] = <<>>)]
    /\ UNCHANGED <<mdp, startState, config, callback, vi, pi, sweep, sim, run, components>>

\* faulty variant: any missing candidate is treated as total failure
MutNoneSucceeded(results) == Len(results) < Len(Methods)

\* line 1276: results.length === 0
NoneSucceeded(results) == Len(results) = 0

\* lines 1088-1097 and 1276-1278
RobustReturn ==
    /\ rob.pc = "select"
    /\ rob' = IF NoneSucceeded(rob.results)
              THEN [pc |-> "rejected", error |-> NoMethodError,
                    results |-> rob.results, warned |-> rob.warned]
              ELSE [pc |-> "resolved", value |-> RobustValue(rob.results),
                    results |-> rob.results, warned |-> rob.warned]
    /\ UNCHANGED <<mdp, startState, config, callback, vi, pi, sweep, sim, run, components>>

\* deterministic, acyclic transition tables
RobustShapes == {trans \in MdpShapes : IsAcyclic(trans) /\ IsDeterministic([transitions |-> trans])}

\* mdp.states: complete, without "B" (whose transitions remain), or undefined
StateLists == {Some(<<"A", "B", "C">>), Some(<<"A", "C">>), Undef}

\* largest config.episodes the model hands to a solver
MaxEpisodes == 2

RobustConfigs ==
    {[maxIterations |-> Some(n), tolerance |-> Undef, gamma |-> Undef,
      learningRate |-> Undef, epsilon |-> Undef, episodes |-> Some(ep),
      lambda |-> Undef] :
        n \in {0, MaxIter}, ep \in 1..MaxEpisodes}

InitRobust ==
    /\ \E trans \in RobustShapes, sl \in StateLists :
          mdp = [states |-> sl, transitions |-> trans, gamma |-> Undef]
    /\ config \in RobustConfigs
    /\ startState = "A"
    /\ callback \in {"none", "throws"}
    /\ rob = [pc |-> "try", results |-> <<>>, warned |-> <<>>]
    /\ vi = Idle
    /\ pi = Idle
    /\ sweep = Idle
    /\ sim = Idle
    /\ run = Idle
    /\ ComponentsIdle

NextRobust == RobustTry \/ RobustReturn

SpecRobust == InitRobust /\ [][NextRobust]_vars

(***************************************************************************)
(* robustOptimizeMDPConfiguration: optimizer.ts 1321-1395                  *)
(***************************************************************************)
\* robustOptimizeMDP(m, start, c, cb) as the set of its outcomes: a rejection
\* or the value it resolves with, for each way the methods' draws can go
robustOptimizeMDP(m, start, c, cb) ==
    {IF NoneSucceeded(results) THEN Thrown ELSE Returned(RobustValue(results))
     : results \in {ResultsOf(pushed) : pushed \in CandidateRuns(m, start, c, cb)}}

\* line 1338
GammaValues == <<<<7, 10>>, <<4, 5>>, <<9, 10>>, <<19, 20>>, <<99, 100>>>>

\* line 1360
RewardScales == <<<<1, 2>>, <<1, 1>>, <<3, 2>>, <<2, 1>>>>

\* lines 1341 and 1362-1374: the test MDPs in the order they are tried
Variants(baseMdp) ==
    [k \in 1..(Len(GammaValues) + Len(RewardScales)) |->
        IF k <= Len(GammaValues)
        THEN [baseMdp EXCEPT !.gamma = Some(GammaValues[k])]
        ELSE ScaleRewards(baseMdp, RewardScales[k - Len(GammaValues)])]

\* faulty variant: a variant that equals the best score replaces it
MutImproves(score, bestScore) == RLe(bestScore, score)

\* lines 1347 and 1379: score > bestScore
Improves(score, bestScore) == RGt(score, bestScore)

\* lines 1342-1355 and 1376-1389: the try/catch for variant k with outcome o
SweepStep(st, k, testMdp, o) ==
    IF o.thrown THEN [st EXCEPT !.failed = Append(@, k)]
    ELSE Only({IF Improves(score, st.bestScore)
               THEN [recorded EXCEPT !.bestScore = score, !.bestMdp = testMdp,
                                     !.bestResult = Some(o.result)]
               ELSE recorded
               : score \in {RMul(o.result.actualPerformance, o.result.confidence)},
                 recorded \in {[st EXCEPT !.optimizationHistory =
                                    Append(@, [mdp |-> testMdp, result |-> o.result])]}})

\* the two loops from variant k on, run on every state in `sts` the earlier
\* variants can have left
RECURSIVE SweepLoop(_, _, _, _, _, _)
SweepLoop(variants, start, c, cb, k, sts) ==
    IF k > Len(variants) THEN sts
    ELSE Only({SweepLoop(variants, start, c, cb, k + 1, next)
               : next \in {{SweepStep(st, k, testMdp, o)
                              : st \in sts,
                                o \in robustOptimizeMDP(testMdp, start, c, cb)}
                            : testMdp \in {variants[k]}}})

\* lines 1332-1390
SweepRun ==
    /\ sweep.pc = "run"
    /\ \E st \in SweepLoop(Variants(mdp), startState, config, callback, 1,
                           {[pc |-> "resolve", optimizationHistory |-> <<>>,
                             bestMdp |-> mdp, bestResult |-> Undef,
                             bestScore |-> NegInf, failed |-> <<>>]}) :
          sweep' = st
    /\ UNCHANGED <<mdp, startState, config, callback, vi, pi, rob, sim, run, components>>

\* lines 1391-1395: the promise has no reject path; bestResult! is null when
\* no variant succeeded
SweepResolve ==
    /\ sweep.pc = "resolve"
    /\ sweep' = [pc |-> "resolved",
                 value |-> [bestMdp |-> sweep.bestMdp, bestResult |-> sweep.bestResult,
                            optimizationHistory |-> sweep.optimizationHistory],
                 failed |-> sweep.failed]
    /\ UNCHANGED <<mdp, startState, config, callback, vi, pi, rob, sim, run, components>>

\* base MDPs of the sweep: the second action of A, when present, leads to C
SweepShapes ==
    {trans \in RobustShapes :
        \A e \in Range(trans) : e.state = "A" /\ e.action = "y"
                                   => e.outcomes[1].nextState = "C"}

\* config.gamma is left out, or set as AgentOptimizer sets it
SweepConfigs ==
    {[c EXCEPT !.gamma = g] : g \in {Undef, Some(Half)},
        c \in {d \in RobustConfigs : d.maxIterations = Some(MaxIter) /\ d.episodes = Some(1)}}

\* a base MDP whose return is 0 at gamma = 1 and negative below it, so that
\* the reward-scale variants all score 0 and the gamma variants score less
BalancedMdp ==
    MkMdp(<<Entry("A", "x", <<Out("B", One, -1)>>),
            Entry("B", "x", <<Out("C", One, 1)>>)>>, Some(One))

SweepBases ==
    {[states |-> sl, transitions |-> trans, gamma |-> Undef] :
        trans \in SweepShapes, sl \in StateLists} \cup {BalancedMdp}

\* the configurations that set gamma are run on BalancedMdp
InitSweep ==
    /\ mdp \in SweepBases
    /\ config \in SweepConfigs
    /\ config.gamma # Undef => mdp = BalancedMdp
    /\ startState = "A"
    /\ callback = "none"
    /\ sweep = [pc |-> "run"]
    /\ vi = Idle
    /\ pi = Idle
    /\ rob = Idle
    /\ sim = Idle
    /\ run = Idle
    /\ ComponentsIdle

NextSweep == SweepRun \/ SweepResolve

SpecSweep == InitSweep /\ [][NextSweep]_vars

(***************************************************************************)
(* sarsa: optimizer.ts 423-572.  As for qLearning the random draws make    *)
(* the result a set of outcomes; an outcome that returned also carries the *)
(* episode numbers onProgress was called with.                             *)
(***************************************************************************)
\* the step cap of a SARSA episode (line 453)
SarsaMaxSteps == 100

\* onProgress is reported when episode % 100 === 0 (lines 519, 669, 811)
ProgressEvery == 100

\* lines 460-466 and 497-503: the actions the epsilon-greedy draw can choose
\* in state s; reduce reads qTable[s] only when s has two actions or more
EpsilonGreedy(q, s, acts, eps) ==
    (IF RLt(Zero, eps)
     THEN {[thrown |-> FALSE, action |-> a] : a \in Range(acts)} ELSE {})
    \cup
    (IF ~RLt(eps, One) THEN {}
     ELSE IF Len(acts) >= 2 /\ s \notin DOMAIN q THEN {Thrown}
     ELSE {[thrown |-> FALSE, action |-> QGreedyLoop(q, s, acts, Len(acts))]})

\* lines 468-514: the while loop from (state, action) on
RECURSIVE SarsaSteps(_, _, _, _, _, _, _, _, _)
SarsaSteps(m, alpha, g, eps, q, state, action, totalReward, steps) ==
    LET done == {[thrown |-> FALSE, q |-> q, totalReward |-> totalReward]}
        outs == transitionsFor(m, state, action)
    IN
    IF steps >= SarsaMaxSteps \/ outs = <<>> THEN done
    ELSE UNION {
        LET nextState == outs[i].nextState
            reward == OrElse(outs[i].reward, Zero)
            nextActions == actionsFromState(m, nextState)
        IN  IF nextActions = <<>> THEN done
            ELSE UNION {
                IF ch.thrown \/ state \notin DOMAIN q \/ nextState \notin DOMAIN q
                THEN {Thrown}
                ELSE LET currentQ == QLookup(q, state, action)
                         nextQ == QLookup(q, nextState, ch.action)
                         newQ == RAdd(currentQ,
                                      RMul(alpha, RSub(RAdd(reward, RMul(g, nextQ)),
                                                       currentQ)))
                     IN  UNION {SarsaSteps(m, alpha, g, eps, q2, nextState, ch.action,
                                           total, steps + 1)
                                : q2 \in {[q EXCEPT ![state] = (action :> newQ) @@ @]},
                                  total \in {RAdd(totalReward, reward)}}
                : ch \in EpsilonGreedy(q, nextState, nextActions, eps)}
        : i \in SampleIndices(outs)}

\* lines 542-571: valueFunction gets an entry only for a state with actions
SarsaResult(m, q, learningCurve, episodes) ==
    LET bestPolicy == [s \in Deciding(m) |->
                          LET acts == actionsFromState(m, s)
                          IN  QGreedyLoop(q, s, acts, Len(acts))]
        valueFunction == [s \in Deciding(m) |-> QMax(q, s, actionsFromState(m, s))]
        valued == SelectSeq(OrElse(m.states, <<>>), LAMBDA s : s \in Deciding(m))
    IN  [bestPolicy |-> bestPolicy,
         bestValue |-> RMaxSeq([i \in 1..Len(valued) |-> valueFunction[valued[i]]]),
         iterations |-> episodes, convergenceHistory |-> learningCurve,
         policyHistory |-> <<bestPolicy>>, valueFunction |-> valueFunction,
         qTable |-> q, learningCurve |-> learningCurve]

\* what one more episode adds to the onProgress calls (lines 519-539)
Reported(cb, calls, episode) ==
    IF cb # "none" /\ episode % ProgressEvery = 0 THEN Append(calls, episode)
    ELSE calls

\* lines 449-540: episodes number `episode`.. of the learning loop; a start
\* state without actions leaves the loop (line 457)
RECURSIVE SarsaRun(_, _, _, _, _, _, _, _, _, _)
SarsaRun(m, start, c, cb, alpha, g, q, learningCurve, calls, episode) ==
    LET acts == actionsFromState(m, start)
        return == {[thrown |-> FALSE, calls |-> calls,
                    result |-> SarsaResult(m, q, learningCurve, EpisodesOf(c))]}
    IN
    IF episode >= EpisodesOf(c) \/ acts = <<>> THEN return
    ELSE UNION {
        IF ch.thrown THEN {Thrown}
        ELSE UNION {
            IF e.thrown THEN {Thrown}
            ELSE SarsaRun(m, start, c, cb, alpha, g, e.q,
                          Append(learningCurve, e.totalReward),
                          Reported(cb, calls, episode), episode + 1)
            : e \in SarsaSteps(m, alpha, g, OrElse(c.epsilon, DefaultEpsilon), q,
                               start, ch.action, Zero, 0)}
        : ch \in EpsilonGreedy(q, start, acts, OrElse(c.epsilon, DefaultEpsilon))}

\* sarsa(mdp, startState, config, callback) on an MDP whose states are defined
sarsa(m, start, c, cb) ==
    SarsaRun(m, start, c, cb, OrElse(c.learningRate, DefaultLearningRate),
             GammaOf(m, c), QInit(m), <<>>, <<>>, 0)

(***************************************************************************)
(* actorCritic: optimizer.ts 575-720, as a set of outcomes.  Math.exp is   *)
(* exact only at 0: the softmax is modelled for preferences that are all   *)
(* equal (every first visit of a state, and every state with one action),  *)
(* and the model's runs are those in which no other softmax is computed.   *)
(***************************************************************************)
ACDefaultLearningRate == <<1, 100>>

\* the step cap of an actor-critic episode (line 609)
ACMaxSteps == 100

\* lines 596-603
ActorInit(m) == QInit(m)

\* lines 616-620 for preferences that are all equal: exp(0) / n each
Softmax(preferences) ==
    CHOOSE probs \in {[i \in 1..Len(preferences) |-> Rat(1, Len(preferences))]} :
        \A i \in 1..Len(preferences) : preferences[i] = preferences[1]

\* availableActions.map(a => actorParams[s][a] ?? 0)
Preferences(actor, s, acts) == [i \in 1..Len(acts) |-> QLookup(actor, s, acts[i])]

\* preferences.indexOf(Math.max(...preferences)), counted from 1
IndexOfMax(preferences) ==
    CHOOSE i \in 1..Len(preferences) :
        /\ preferences[i] = RMaxSeq(preferences)
        /\ \A j \in 1..(i - 1) : preferences[j] # RMaxSeq(preferences)

\* lines 666-670: the actor update of `state` after `selected` was taken
ActorUpdate(actor, state, acts, probs, selected, alpha, tdError) ==
    [actor EXCEPT ![state] =
        [a \in Range(acts) |->
            LET i == CHOOSE k \in 1..Len(acts) : acts[k] = a
            IN  RAdd(QLookup(actor, state, a),
                     RMul(RMul(alpha, tdError),
                          RSub(IF a = selected THEN One ELSE Zero, probs[i])))]
        @@ @]

\* lines 611-675: the while loop from `state` on
RECURSIVE ACSteps(_, _, _, _, _, _, _, _)
ACSteps(m, alpha, g, actor, critic, state, totalReward, steps) ==
    LET done == {[thrown |-> FALSE, actor |-> actor, critic |-> critic,
                  totalReward |-> totalReward]}
        acts == actionsFromState(m, state)
    IN
    IF steps >= ACMaxSteps \/ acts = <<>> THEN done
    ELSE IF state \notin DOMAIN actor THEN {Thrown}
    ELSE UNION {
        LET outs == transitionsFor(m, state, acts[k]) IN
        IF outs = <<>> THEN done
        ELSE UNION {
            UNION {ACSteps(m, alpha, g,
                           ActorUpdate(actor, state, acts, probs, acts[k], alpha, tdError),
                           [critic EXCEPT ![state] = RAdd(@, RMul(alpha, tdError))],
                           outs[i].nextState, total, steps + 1)
                   : tdError \in {RSub(RAdd(OrElse(outs[i].reward, Zero),
                                            RMul(g, Lookup(critic, outs[i].nextState))),
                                       Lookup(critic, state))},
                     total \in {RAdd(totalReward, OrElse(outs[i].reward, Zero))}}
            : i \in SampleIndices(outs)}
        : probs \in {Softmax(Preferences(actor, state, acts))},
          k \in SampleIndices([j \in 1..Len(acts) |->
                    [probability |-> Softmax(Preferences(actor, state, acts))[j]]])}

\* lines 701-719
ACResult(m, actor, critic, learningCurve, episodes) ==
    LET bestPolicy == [s \in Deciding(m) |->
                          LET acts == actionsFromState(m, s)
                          IN  acts[IndexOfMax(Preferences(actor, s, acts))]]
    IN  [bestPolicy |-> bestPolicy, bestValue |-> BestValueOf(m, critic),
         iterations |-> episodes, convergenceHistory |-> learningCurve,
         policyHistory |-> <<bestPolicy>>, valueFunction |-> critic]

\* lines 605-699: episodes number `episode`.. of the learning loop
RECURSIVE ACRun(_, _, _, _, _, _, _, _, _, _)
ACRun(m, start, c, cb, alpha, g, st, learningCurve, calls, episode) ==
    IF episode >= EpisodesOf(c)
    THEN {[thrown |-> FALSE, calls |-> calls,
           result |-> ACResult(m, st.actor, st.critic, learningCurve, EpisodesOf(c))]}
    ELSE UNION {
        IF e.thrown THEN {Thrown}
        ELSE ACRun(m, start, c, cb, alpha, g, e,
                   Append(learningCurve, e.totalReward),
                   Reported(cb, calls, episode), episode + 1)
        : e \in ACSteps(m, alpha, g, st.actor, st.critic, start, Zero, 0)}

\* actorCritic(mdp, startState, config, callback) on an MDP whose states are
\* defined
actorCritic(m, start, c, cb) ==
    ACRun(m, start, c, cb, OrElse(c.learningRate, ACDefaultLearningRate),
          GammaOf(m, c), [actor |-> ActorInit(m), critic |-> ZeroValues(m)],
          <<>>, <<>>, 0)

\* the runs of actorCritic the model can compute: one episode on an acyclic
\* MDP, or any number of episodes when no state has two actions
SoftmaxIsExact(m, c) ==
    \/ EpisodesOf(c) = 1
    \/ \A s \in {e.state : e \in Range(m.transitions)} :
          Len(actionsFromState(m, s)) = 1

(***************************************************************************)
(* tdLambda: optimizer.ts 723-876, as a set of outcomes.  Reading          *)
(* valueFunction[state] for a state that mdp.states does not list gives    *)
(* undefined, and the arithmetic on it NaN.                                *)
(***************************************************************************)
NaN == <<0, 0>>

DefaultLambda == <<7, 10>>

\* the step cap of a TD(lambda) episode (line 751)
TDMaxSteps == 100

\* a + b and a * b where either operand can be NaN
NAdd(a, b) == IF a = NaN \/ b = NaN THEN NaN ELSE RAdd(a, b)

NMul(a, b) == IF a = NaN \/ b = NaN THEN NaN ELSE RMul(a, b)

\* a > b, false when either operand is NaN
NGt(a, b) == a # NaN /\ b # NaN /\ RGt(a, b)

\* lines 786-802: the TD error of the step and the update of every listed
\* state whose trace is positive
TDUpdate(m, alpha, g, lambda, st, state, nextState, reward) ==
    LET currentValue == IF state \in DOMAIN st.v THEN st.v[state] ELSE NaN
        tdError == NAdd(NAdd(reward, NMul(g, Lookup(st.v, nextState))),
                        NMul(R(-1), currentValue))
        bumped == [s \in DOMAIN st.traces |->
                      IF s = state THEN RAdd(st.traces[s], One) ELSE st.traces[s]]
    IN  [v |-> [s \in DOMAIN st.v |->
                    IF RGt(bumped[s], Zero)
                    THEN NAdd(st.v[s], NMul(NMul(alpha, tdError), bumped[s]))
                    ELSE st.v[s]],
         traces |-> [s \in DOMAIN st.traces |->
                       IF RGt(bumped[s], Zero) THEN RMul(bumped[s], RMul(g, lambda))
                       ELSE bumped[s]]]

\* lines 753-806: the while loop from `state` on
RECURSIVE TDSteps(_, _, _, _, _, _, _, _)
TDSteps(m, alpha, g, lambda, st, state, totalReward, steps) ==
    LET done == {[v |-> st.v, totalReward |-> totalReward]}
        acts == actionsFromState(m, state)
    IN
    IF steps >= TDMaxSteps \/ acts = <<>> THEN done
    ELSE UNION {
        LET outs == transitionsFor(m, state, a) IN
        IF outs = <<>> THEN done
        ELSE UNION {
            UNION {TDSteps(m, alpha, g, lambda, next, outs[i].nextState, total,
                           steps + 1)
                   : next \in {TDUpdate(m, alpha, g, lambda, st, state,
                                        outs[i].nextState,
                                        OrElse(outs[i].reward, Zero))},
                     total \in {RAdd(totalReward, OrElse(outs[i].reward, Zero))}}
            : i \in SampleIndices(outs)}
        : a \in Range(acts)}

\* lines 851-857: the sum of probability * (valueFunction[nextState] ?? 0)
RECURSIVE TDActionValue(_, _, _)
TDActionValue(outs, v, n) ==
    IF n = 0 THEN Zero
    ELSE NAdd(TDActionValue(outs, v, n - 1),
              NMul(outs[n].probability, Lookup(v, outs[n].nextState)))

\* lines 846-863: the loop over acts[1..n], keeping the first strictly
\* greatest action value; acts[1] stays when nothing exceeds -Infinity
RECURSIVE TDGreedyLoop(_, _, _, _, _)
TDGreedyLoop(m, v, s, acts, n) ==
    IF n = 0 THEN [bestAction |-> acts[1], bestValue |-> NegInf]
    ELSE Only({Only({IF NGt(actionValue, best.bestValue)
                     THEN [bestAction |-> acts[n], bestValue |-> actionValue]
                     ELSE best
                     : actionValue \in {TDActionValue(outs, v, Len(outs))}})
               : best \in {TDGreedyLoop(m, v, s, acts, n - 1)},
                 outs \in {transitionsFor(m, s, acts[n])}})

\* Math.max(...Object.values(valueFunction)): NaN when a value is NaN
TDBestValue(m, v) ==
    IF \E s \in DOMAIN v : v[s] = NaN THEN NaN ELSE BestValueOf(m, v)

\* lines 841-875
TDResult(m, v, learningCurve, episodes) ==
    LET bestPolicy == [s \in Deciding(m) |->
                          LET acts == actionsFromState(m, s)
                          IN  TDGreedyLoop(m, v, s, acts, Len(acts)).bestAction]
    IN  [bestPolicy |-> bestPolicy, bestValue |-> TDBestValue(m, v),
         iterations |-> episodes, convergenceHistory |-> learningCurve,
         policyHistory |-> <<bestPolicy>>, valueFunction |-> v]

\* lines 746-839: episodes number `episode`.. of the learning loop; the
\* traces are reset at the start of each
RECURSIVE TDRun(_, _, _, _, _, _, _, _, _, _)
TDRun(m, start, c, cb, alpha, g, v, learningCurve, calls, episode) ==
    IF episode >= EpisodesOf(c)
    THEN {[thrown |-> FALSE, calls |-> calls,
           result |-> TDResult(m, v, learningCurve, EpisodesOf(c))]}
    ELSE UNION {
        TDRun(m, start, c, cb, alpha, g, e.v, Append(learningCurve, e.totalReward),
              Reported(cb, calls, episode), episode + 1)
        : e \in TDSteps(m, alpha, g, OrElse(c.lambda, DefaultLambda),
                        [v |-> v, traces |-> ZeroValues(m)], start, Zero, 0)}

\* tdLambda(mdp, startState, config, callback) on an MDP whose states are
\* defined
tdLambda(m, start, c, cb) ==
    TDRun(m, start, c, cb, OrElse(c.learningRate, DefaultLearningRate),
          GammaOf(m, c), ZeroValues(m), <<>>, <<>>, 0)

(***************************************************************************)
(* The solvers run one at a time on the same inputs: one action per        *)
(* solver, taking the whole call from its arguments to its return or throw *)
(***************************************************************************)
\* the run after a call of `solver` that went as outcome o
Finished(solver, o) ==
    IF o.thrown THEN [pc |-> "thrown", solver |-> solver]
    ELSE [pc |-> "returned", solver |-> solver, result |-> o.result,
          calls |-> o.calls]

\* the outcomes of a solver whose code never calls onProgress
Silent(outcomes) ==
    {IF o.thrown THEN o ELSE [thrown |-> FALSE, result |-> o.result, calls |-> <<>>]
     : o \in outcomes}

\* valueIteration with callback cb: lines 102-141 call onProgress with the
\* sweep's number after each push to convergenceHistory
valueIteration(m, c, cb) ==
    {[thrown |-> FALSE, result |-> r,
      calls |-> IF cb = "none" THEN <<>>
                ELSE [i \in 1..Len(r.convergenceHistory) |-> i - 1]]
     : r \in {RunVI(m, c)}}

\* valueIteration (lines 52-185)
RunValueIteration ==
    /\ run.pc = "call"
    /\ run.solver = "valueIteration"
    /\ \E o \in valueIteration(mdp, config, callback) :
          run' = Finished("valueIteration", o)
    /\ UNCHANGED <<mdp, startState, config, callback, vi, pi, rob, sweep, sim, components>>

\* policyIteration (lines 188-296) has no onProgress call
RunPolicyIteration ==
    /\ run.pc = "call"
    /\ run.solver = "policyIteration"
    /\ \E o \in Silent({Returned(RunPI(mdp, config, p0)) : p0 \in InitialPolicies(mdp)}) :
          run' = Finished("policyIteration", o)
    /\ UNCHANGED <<mdp, startState, config, callback, vi, pi, rob, sweep, sim, components>>

\* qLearning (lines 299-420) has no onProgress call
RunQLearning ==
    /\ run.pc = "call"
    /\ run.solver = "qLearning"
    /\ \E o \in Silent(qLearning(mdp, startState, config)) :
          run' = Finished("qLearning", o)
    /\ UNCHANGED <<mdp, startState, config, callback, vi, pi, rob, sweep, sim, components>>

\* sarsa (lines 423-572)
RunSarsa ==
    /\ run.pc = "call"
    /\ run.solver = "sarsa"
    /\ \E o \in sarsa(mdp, startState, config, callback) :
          run' = Finished("sarsa", o)
    /\ UNCHANGED <<mdp, startState, config, callback, vi, pi, rob, sweep, sim, components>>

\* actorCritic (lines 575-720)
RunActorCritic ==
    /\ run.pc = "call"
    /\ run.solver = "actorCritic"
    /\ \E o \in actorCritic(mdp, startState, config, callback) :
          run' = Finished("actorCritic", o)
    /\ UNCHANGED <<mdp, startState, config, callback, vi, pi, rob, sweep, sim, components>>

\* tdLambda (lines 723-876)
RunTdLambda ==
    /\ run.pc = "call"
    /\ run.solver = "tdLambda"
    /\ \E o \in tdLambda(mdp, startState, config, callback) :
          run' = Finished("tdLambda", o)
    /\ UNCHANGED <<mdp, startState, config, callback, vi, pi, rob, sweep, sim, components>>

\* monteCarloPolicySearch (lines 1101-1184) has no onProgress call
RunMonteCarloPolicySearch ==
    /\ run.pc = "call"
    /\ run.solver = "monteCarloPolicySearch"
    /\ \E o \in Silent({Returned(monteCarloPolicySearch(mdp, startState, config, p0))
                       : p0 \in InitialPolicies(mdp)}) :
          run' = Finished("monteCarloPolicySearch", o)
    /\ UNCHANGED <<mdp, startState, config, callback, vi, pi, rob, sweep, sim, components>>

\* the caller calls valueIteration a second time with the same arguments
RepeatValueIteration ==
    /\ run.pc = "returned"
    /\ run.solver = "valueIteration"
    /\ \E o \in valueIteration(mdp, config, callback) :
          run' = [pc |-> "repeated", solver |-> run.solver, result |-> run.result,
                  calls |-> run.calls, again |-> o.result]
    /\ UNCHANGED <<mdp, startState, config, callback, vi, pi, rob, sweep, sim, components>>

Solvers ==
    {"valueIteration", "policyIteration", "qLearning", "sarsa", "actorCritic",
     "tdLambda", "monteCarloPolicySearch"}

\* acyclic transition tables
SolverShapes == {trans \in MdpShapes : IsAcyclic(trans)}

\* mdp.states: complete, or without "B" (whose transitions remain)
SolverStateLists == {Some(<<"A", "B", "C">>), Some(<<"A", "C">>)}

SolverConfigs ==
    {[maxIterations |-> Some(n), tolerance |-> Undef, gamma |-> Undef,
      learningRate |-> Undef, epsilon |-> Undef, episodes |-> Some(ep),
      lambda |-> Undef] :
        n \in {0, MaxIter}, ep \in 1..MaxEpisodes}

\* The start state is "A", or "C", which has no actions.  The model of
\* monteCarloPolicySearch is the one for deterministic MDPs, and that of
\* actorCritic the one for runs whose softmax is exact.
InitSolver ==
    /\ \E trans \in SolverShapes, sl \in SolverStateLists :
          mdp = [states |-> sl, transitions |-> trans, gamma |-> Undef]
    /\ config \in SolverConfigs
    /\ startState \in {"A", "C"}
    /\ callback \in {"none", "ok"}
    /\ \E solver \in Solvers : run = [pc |-> "call", solver |-> solver]
    /\ run.solver = "monteCarloPolicySearch" => IsDeterministic(mdp)
    /\ run.solver = "actorCritic" => SoftmaxIsExact(mdp, config)
    /\ vi = Idle
    /\ pi = Idle
    /\ rob = Idle
    /\ sweep = Idle
    /\ sim = Idle
    /\ ComponentsIdle

NextSolver ==
    \/ RunValueIteration \/ RunPolicyIteration \/ RunQLearning \/ RunSarsa
    \/ RunActorCritic \/ RunTdLambda \/ RunMonteCarloPolicySearch
    \/ RepeatValueIteration

SpecSolver == InitSolver /\ [][NextSolver]_vars

(***************************************************************************)
(* The simulator: sim.ts (sampleNext 28-41, simulateEpisode 43-81)         *)
(***************************************************************************)
\* faulty variant: the comparison is strict
MutReaches(r, acc) == RLt(r, acc)

\* line 38: r <= acc
Reaches(r, acc) == RLe(r, acc)

\* lines 36-40: the loop from transitions[i] on with the sum `acc` so far,
\* then the fallback to the last element
RECURSIVE SampleLoop(_, _, _, _)
SampleLoop(transitions, r, acc, i) ==
    IF i > Len(transitions) THEN transitions[Len(transitions)]
    ELSE Only({IF Reaches(r, sum) THEN transitions[i]
               ELSE SampleLoop(transitions, r, sum, i + 1)
               : sum \in {RAdd(acc, transitions[i].probability)}})

\* sampleNext(transitions) when Math.random() returns r
sampleNext(transitions, r) ==
    IF Len(transitions) = 0
    THEN [thrown |-> TRUE, error |-> "No transitions available"]
    ELSE [thrown |-> FALSE, t |-> SampleLoop(transitions, r, Zero, 1)]

\* line 53: mdp.gamma ?? 1.0
SimGamma(m) == OrElse(m.gamma, One)

\* faulty variant: the last step is not taken
MutLoopContinues(step, maxSteps) == step < maxSteps - 1

\* line 56: step < maxSteps
LoopContinues(step, maxSteps) == step < maxSteps

\* faulty variant: an empty outcome list is not noticed
MutNoOutcomes(transitions) == FALSE

\* line 67: transitions.length === 0
NoOutcomes(transitions) == Len(transitions) = 0

\* line 57: visited[s] = (visited[s] ?? 0) + 1
Visit(visited, s) ==
    IF s \in DOMAIN visited THEN [visited EXCEPT ![s] = @ + 1]
    ELSE (s :> 1) @@ visited

\* the EpisodeResult of lines 61, 68 and 80; `exit` is the line of the return
EpisodeResult(exit, steps, visited) ==
    [pc |-> "returned", exit |-> exit, maxSteps |-> sim.maxSteps,
     result |-> [totalReward |-> sim.rewardSum, steps |-> steps,
                 terminal |-> sim.s, visited |-> visited, path |-> sim.path,
                 actions |-> sim.actions]]

\* lines 59-62: the current state has no actions
SimReturnNoActions ==
    /\ sim.pc = "loop"
    /\ LoopContinues(sim.step, sim.maxSteps)
    /\ Len(actionsFromState(mdp, sim.s)) = 0
    /\ sim' = EpisodeResult("noActions", sim.step, Visit(sim.visited, sim.s))
    /\ UNCHANGED <<mdp, startState, config, callback, vi, pi, rob, sweep, run, components>>

\* lines 64-69: the action drawn has an empty outcome list
SimReturnNoOutcomes ==
    /\ sim.pc = "loop"
    /\ LoopContinues(sim.step, sim.maxSteps)
    /\ \E a \in Range(actionsFromState(mdp, sim.s)) :
          /\ NoOutcomes(transitionsFor(mdp, sim.s, a))
          /\ sim' = EpisodeResult("noOutcomes", sim.step, Visit(sim.visited, sim.s))
    /\ UNCHANGED <<mdp, startState, config, callback, vi, pi, rob, sweep, run, components>>

\* the draws of Math.random() the model takes in sampleNext
Draws == {Zero, <<1, 4>>, Half, <<3, 4>>, <<99, 100>>}

\* lines 57-77: one full pass of the loop body, with the action and the draw
\* of sampleNext chosen by Math.random()
SimStep ==
    /\ sim.pc = "loop"
    /\ LoopContinues(sim.step, sim.maxSteps)
    /\ \E a \in Range(actionsFromState(mdp, sim.s)), r \in Draws :
          /\ ~NoOutcomes(transitionsFor(mdp, sim.s, a))
          /\ sim' = Only({
                 IF drawn.thrown THEN [pc |-> "thrown", error |-> drawn.error]
                 ELSE [sim EXCEPT
                         !.visited = Visit(@, sim.s),
                         !.rewardSum = RAdd(@, RMul(sim.discount,
                                                    OrElse(drawn.t.reward, Zero))),
                         !.discount = RMul(@, SimGamma(mdp)),
                         !.s = drawn.t.nextState,
                         !.path = Append(@, drawn.t.nextState),
                         !.actions = Append(@, a),
                         !.step = @ + 1,
                         !.sampled = Some([transitions |-> transitions,
                                           r |-> r, t |-> drawn.t])]
                 : transitions \in {transitionsFor(mdp, sim.s, a)},
                   drawn \in {sampleNext(transitionsFor(mdp, sim.s, a), r)}})
    /\ UNCHANGED <<mdp, startState, config, callback, vi, pi, rob, sweep, run, components>>

\* line 80: the loop ran maxSteps times
SimReturnMaxSteps ==
    /\ sim.pc = "loop"
    /\ ~LoopContinues(sim.step, sim.maxSteps)
    /\ sim' = EpisodeResult("maxSteps", sim.maxSteps, sim.visited)
    /\ UNCHANGED <<mdp, startState, config, callback, vi, pi, rob, sweep, run, components>>

\* largest maxSteps the model hands to simulateEpisode
MaxSimSteps == 3

\* key "A|x": as in MdpShapes, or outcomes whose probabilities sum to 3/4
SimAxOutcomes ==
    AxOutcomes \cup {<<Out("B", Half, 1), Out("C", <<1, 4>>, -1)>>,
                     <<Out("B", Zero, 1), Out("C", One, -1)>>}

\* key "A|y": as in MdpShapes, or present with an empty outcome list
SimAyEntries == AyEntries \cup {<<Entry("A", "y", <<>>)>>}

SimShapes ==
    {<<Entry("A", "x", ax)>> \o ay \o bx :
        ax \in SimAxOutcomes, ay \in SimAyEntries, bx \in BxEntries}

\* lines 48-54
InitSim ==
    /\ \E trans \in SimShapes, g \in {Undef, Some(Half)} :
          mdp = MkMdp(trans, g)
    /\ startState \in {"A", "B", "C"}
    /\ \E maxSteps \in 1..MaxSimSteps :
          sim = [pc |-> "loop", s |-> startState, rewardSum |-> Zero,
                 visited |-> <<>>, path |-> <<startState>>, actions |-> <<>>,
                 discount |-> One, step |-> 0, maxSteps |-> maxSteps,
                 sampled |-> Undef]
    /\ config = Idle
    /\ callback = "none"
    /\ vi = Idle
    /\ pi = Idle
    /\ rob = Idle
    /\ sweep = Idle
    /\ run = Idle
    /\ ComponentsIdle

NextSim == SimReturnNoActions \/ SimReturnNoOutcomes \/ SimStep \/ SimReturnMaxSteps

SpecSim == InitSim /\ [][NextSim]_vars

\* the loop is sequential code: a pass or a return that can run does run
FairSim == SpecSim /\ WF_vars(NextSim)

(***************************************************************************)
(* calculateConfidence applied to validation results                       *)
(***************************************************************************)
\* the values of the four fields the model draws validation results from:
\* mcReward of either sign and zero, mcStdDev >= 0, successRate in [0, 1]
McRewards == {R(-2), R(-1), <<-1, 2>>, Zero, <<1, 100>>, Half, One, R(2)}

McStdDevs == {Zero, <<1, 100>>, Half, One, R(3)}

SuccessRates == {Zero, <<1, 1000>>, Half, One}

PathEfficiencies == {<<-1, 50>>, Zero, <<1, 100>>, <<1, 50>>, R(2)}

\* lines 1298-1318: the call and its return value
CalculateConfidence ==
    /\ run.pc = "call"
    /\ run' = [pc |-> "returned", validation |-> run.validation,
               confidence |-> calculateConfidence(run.validation)]
    /\ UNCHANGED <<mdp, startState, config, callback, vi, pi, rob, sweep, sim, components>>

InitConfidence ==
    /\ \E r \in McRewards, sd \in McStdDevs, sr \in SuccessRates,
          pe \in PathEfficiencies :
          run = [pc |-> "call",
                 validation |-> [mcReward |-> r, mcStdDev |-> sd,
                                 successRate |-> sr, pathEfficiency |-> pe]]
    /\ mdp = Idle
    /\ startState = "A"
    /\ config = Idle
    /\ callback = "none"
    /\ vi = Idle
    /\ pi = Idle
    /\ rob = Idle
    /\ sweep = Idle
    /\ sim = Idle
    /\ ComponentsIdle

NextConfidence == CalculateConfidence

SpecConfidence == InitConfidence /\ [][NextConfidence]_vars

(***************************************************************************)
(* simulateEpisode as a function of its arguments: the set of results the  *)
(* draws of Math.random() allow (sim.ts 43-81)                             *)
(***************************************************************************)
\* lines 48-54: the locals before the first pass of the loop
EpisodeStart(start) ==
    [s |-> start, rewardSum |-> Zero, visited |-> <<>>, path |-> <<start>>,
     actions |-> <<>>, discount |-> One]

\* the object literal of lines 61, 68 and 80
EpisodeReturn(st, steps, visited) ==
    [totalReward |-> st.rewardSum, steps |-> steps, terminal |-> st.s,
     visited |-> visited, path |-> st.path, actions |-> st.actions]

\* lines 57-69: the results of the passes that return from the locals st
PassReturns(m, st, step) ==
    {EpisodeReturn(st, step, Visit(st.visited, st.s)) : a \in
        {b \in Range(actionsFromState(m, st.s)) : NoOutcomes(transitionsFor(m, st.s, b))}}
    \cup (IF Len(actionsFromState(m, st.s)) = 0
          THEN {EpisodeReturn(st, step, Visit(st.visited, st.s))} ELSE {})

\* lines 71-77: the locals after the step that samples t for action a
StepTaken(m, st, a, t) ==
    [s |-> t.nextState,
     rewardSum |-> RAdd(st.rewardSum, RMul(st.discount, OrElse(t.reward, Zero))),
     visited |-> Visit(st.visited, st.s),
     path |-> Append(st.path, t.nextState),
     actions |-> Append(st.actions, a),
     discount |-> RMul(st.discount, SimGamma(m))]

\* lines 57-77: the locals after the passes that take a step from st
PassSteps(m, st) ==
    {StepTaken(m, st, ar[1], sampleNext(transitionsFor(m, st.s, ar[1]), ar[2]).t)
     : ar \in {x \in Range(actionsFromState(m, st.s)) \X Draws :
                  ~NoOutcomes(transitionsFor(m, st.s, x[1]))}}

\* lines 56-80 from pass number `step` on: `frontier` holds the locals the
\* draws so far allow, `results` the results already returned
RECURSIVE EpisodeResultsFrom(_, _, _, _, _)
EpisodeResultsFrom(m, maxSteps, frontier, step, results) ==
    IF frontier = {} THEN results
    ELSE IF ~LoopContinues(step, maxSteps)
    THEN results \cup {EpisodeReturn(st, maxSteps, st.visited) : st \in frontier}
    ELSE Only({EpisodeResultsFrom(m, maxSteps, next, step + 1, ended)
               : next \in {UNION {PassSteps(m, st) : st \in frontier}},
                 ended \in {results \cup UNION {PassReturns(m, st, step) : st \in frontier}}})

\* simulateEpisode(mdp, startState, maxSteps): every result it can return
simulateEpisode(m, start, maxSteps) ==
    EpisodeResultsFrom(m, maxSteps, {EpisodeStart(start)}, 0, {})

\* the MDP without the keys that are mapped to an empty outcome list
WithoutEmptyKeys(m) ==
    [m EXCEPT !.transitions = SelectSeq(@, LAMBDA e : e.outcomes # <<>>)]

(***************************************************************************)
(* The Home component: app/page.tsx 46-81.  The text of the editor is      *)
(* modelled by what JSON.parse makes of it: [parses |-> FALSE] for text    *)
(* that is not JSON, [parses |-> TRUE, value |-> v] otherwise, v having    *)
(* the fields of an MDP.                                                   *)
(***************************************************************************)
\* line 10: the sample the editor starts with
SAMPLE ==
    [parses |-> TRUE,
     value |->
        [states |-> Some(<<"S0", "S1", "S2", "S3">>), actions |-> <<"a", "b">>,
         gamma |-> Some(<<19, 20>>),
         transitions |-> <<
            Entry("S0", "a", <<Out("S1", <<9, 10>>, 1), Out("S2", <<1, 10>>, 0)>>),
            Entry("S0", "b", <<Out("S1", <<2, 5>>, 0), Out("S3", <<3, 5>>, 2)>>),
            Entry("S1", "a", <<Out("S3", One, 0)>>),
            Entry("S1", "b", <<Out("S0", One, 0)>>),
            Entry("S2", "a", <<Out("S2", One, 0)>>),
            Entry("S2", "b", <<Out("S3", One, 0)>>),
            Entry("S3", "a", <<Out("S0", Half, 0), Out("S3", Half, 0)>>),
            Entry("S3", "b", <<Out("S0", Half, 0), Out("S3", Half, 0)>>)>>]]

\* a number within [0, 1]
InUnitInterval(x) == RLe(Zero, x) /\ RLe(x, One)

\* mdpSchema.parse (types/mdp.ts): states and actions have an element, every
\* probability and gamma, when given, lie within [0, 1]
SchemaAccepts(v) ==
    /\ Len(OrElse(v.states, <<>>)) >= 1
    /\ Len(v.actions) >= 1
    /\ \A e \in Range(v.transitions) : \A o \in Range(e.outcomes) :
          InUnitInterval(o.probability)
    /\ v.gamma # Undef => InUnitInterval(v.gamma[1])

\* transitions.reduce((acc, t) => acc + t.probability, 0)
RECURSIVE MassOf(_)
MassOf(outs) ==
    IF outs = <<>> THEN Zero
    ELSE RAdd(MassOf(SubSeq(outs, 1, Len(outs) - 1)), outs[Len(outs)].probability)

\* the tolerance of validateTransitionMass
MassTolerance == <<1, 1000000>>

\* faulty variant: no key is reported
MutValidateTransitionMass(m) == <<>>

\* validateTransitionMass(mdp): the keys whose probabilities do not sum to 1
\* within the tolerance
validateTransitionMass(m) ==
    SelectSeq(m.transitions,
              LAMBDA e : RGt(RAbs(RSub(MassOf(e.outcomes), One)), MassTolerance))

\* line 56: canSim
canSim == page.mdp # Undef /\ page.start \in StateSet(page.mdp[1])

\* the editor's onChange (line 115): setJson
SetJson(text) ==
    /\ page.pc = "mounted"
    /\ page' = [page EXCEPT !.json = text]
    /\ UNCHANGED <<mdp, startState, config, callback, vi, pi, rob, sweep, sim, run,
                   agent, mc, tuner>>

\* handleRender, lines 58-75: the error and the result are cleared; the text
\* is parsed and validated; a failure sets the error and mdp to null
handleRender ==
    /\ page.pc = "mounted"
    /\ page' =
          IF ~page.json.parses \/ ~SchemaAccepts(page.json.value)
          THEN [page EXCEPT !.error = Some("Invalid JSON/MDP"), !.result = Undef,
                            !.mdp = Undef]
          ELSE IF Len(validateTransitionMass(page.json.value)) > 0
          THEN [page EXCEPT !.error = Some("Probability mass errors"),
                            !.result = Undef, !.mdp = Undef]
          ELSE [page EXCEPT !.error = Undef, !.result = Undef,
                            !.mdp = Some(page.json.value),
                            !.start = IF page.start \in StateSet(page.json.value)
                                      THEN @ ELSE page.json.value.states[1][1]]
    /\ UNCHANGED <<mdp, startState, config, callback, vi, pi, rob, sweep, sim, run,
                   agent, mc, tuner>>

\* the start-state select (lines 135-141): enabled while mdp is set, its
\* options are mdp.states
SelectStart(s) ==
    /\ page.pc = "mounted"
    /\ page.mdp # Undef
    /\ s \in StateSet(page.mdp[1])
    /\ page' = [page EXCEPT !.start = s]
    /\ UNCHANGED <<mdp, startState, config, callback, vi, pi, rob, sweep, sim, run,
                   agent, mc, tuner>>

\* handleSim, lines 77-80, behind a button that is disabled unless canSim
\* (line 180).
\* The result is kept as the arguments runMonteCarlo was called with.
handleSim ==
    /\ page.pc = "mounted"
    /\ canSim
    /\ page.mdp # Undef
    /\ page' = [page EXCEPT !.result = Some([mdp |-> page.mdp[1], start |-> page.start,
                                             episodes |-> page.episodes,
                                             maxSteps |-> page.maxSteps])]
    /\ UNCHANGED <<mdp, startState, config, callback, vi, pi, rob, sweep, sim, run,
                   agent, mc, tuner>>

\* an MDP of the page's inputs: two states, one key
PageMdp(states, outs, g) ==
    [parses |-> TRUE,
     value |-> [states |-> Some(states), actions |-> <<"x">>, gamma |-> g,
                transitions |-> <<Entry("A", "x", outs)>>]]

\* the texts typed into the editor: not JSON; no states; a probability above
\* 1; a gamma above 1; outcome lists of mass 3/4, 0 (empty) and 1 + 2e-6;
\* accepted MDPs with states A, B and with states B, C, one of mass 1 - 1e-6
Texts ==
    {SAMPLE, [parses |-> FALSE],
     PageMdp(<<>>, <<Out("B", One, 1)>>, Undef),
     PageMdp(<<"A", "B">>, <<Out("B", <<3, 2>>, 1)>>, Undef),
     PageMdp(<<"A", "B">>, <<Out("B", One, 1)>>, Some(R(2))),
     PageMdp(<<"A", "B">>, <<Out("B", Half, 1), Out("A", <<1, 4>>, 0)>>, Undef),
     PageMdp(<<"A", "B">>, <<>>, Undef),
     PageMdp(<<"A", "B">>, <<Out("B", <<500001, 500000>>, 1)>>, Undef),
     PageMdp(<<"A", "B">>, <<Out("B", Half, 1), Out("A", Half, 0)>>, Undef),
     PageMdp(<<"B", "C">>, <<Out("B", <<999999, 1000000>>, 1)>>, Some(Half))}

\* lines 47-54: the initial state of the component
InitPage ==
    /\ page = [pc |-> "mounted", json |-> SAMPLE, mdp |-> Undef, start |-> "S0",
               episodes |-> 1000, maxSteps |-> 100, error |-> Undef, result |-> Undef]
    /\ mdp = Idle
    /\ startState = "S0"
    /\ config = Idle
    /\ callback = "none"
    /\ vi = Idle
    /\ pi = Idle
    /\ rob = Idle
    /\ sweep = Idle
    /\ sim = Idle
    /\ run = Idle
    /\ agent = Idle
    /\ mc = Idle
    /\ tuner = Idle

NextPage ==
    \/ \E text \in Texts : SetJson(text)
    \/ handleRender
    \/ \E s \in {"S0", "S1", "S2", "S3", "A", "B", "C"} : SelectStart(s)
    \/ handleSim

SpecPage == InitPage /\ [][NextPage]_vars

(***************************************************************************)
(* AgentOptimizer.evaluatePolicy: components/AgentOptimizer.tsx 682-713.   *)
(* runMonteCarlo's episodes are independent calls of simulateEpisode on    *)
(* the same arguments; the model follows one of them, step by step.        *)
(***************************************************************************)
\* lines 688-704: the MDP handed to runMonteCarlo: the outcomes of a key
\* whose action is not bestPolicy[state] get probability 0
PolicyMdp(m, bestPolicy) ==
    [m EXCEPT !.transitions =
        [i \in 1..Len(m.transitions) |->
            LET e == m.transitions[i] IN
            IF e.state \in DOMAIN bestPolicy /\ e.action = bestPolicy[e.state] THEN e
            ELSE [e EXCEPT !.outcomes =
                    [j \in 1..Len(e.outcomes) |->
                        [e.outcomes[j] EXCEPT !.probability = Zero]]]]]

\* line 683: without an optimization result the handler returns
EvaluateWithoutResult ==
    /\ agent.pc = "ready"
    /\ agent.optimizationResult = Undef
    /\ agent' = [agent EXCEPT !.pc = "returned"]
    /\ UNCHANGED <<mdp, startState, config, callback, vi, pi, rob, sweep, sim, run,
                   page, mc, tuner>>

\* lines 685-706: policyMdp is built and runMonteCarlo starts an episode on it
evaluatePolicy ==
    /\ agent.pc = "ready"
    /\ agent.optimizationResult # Undef
    /\ agent' = [agent EXCEPT !.pc = "evaluating", !.isRunning = TRUE]
    /\ mdp' = PolicyMdp(agent.mdp, agent.optimizationResult[1].bestPolicy)
    /\ \E maxSteps \in 1..MaxSimSteps :
          sim' = [pc |-> "loop", s |-> startState, rewardSum |-> Zero,
                  visited |-> <<>>, path |-> <<startState>>, actions |-> <<>>,
                  discount |-> One, step |-> 0, maxSteps |-> maxSteps,
                  sampled |-> Undef]
    /\ UNCHANGED <<startState, config, callback, vi, pi, rob, sweep, run,
                   page, mc, tuner>>

\* lines 707-711: the summary is stored and isRunning reset
EvaluationDone ==
    /\ agent.pc = "evaluating"
    /\ sim.pc = "returned"
    /\ agent' = [agent EXCEPT !.pc = "evaluated", !.isRunning = FALSE,
                              !.evaluationResult = Some(sim.result)]
    /\ UNCHANGED <<mdp, startState, config, callback, vi, pi, rob, sweep, sim, run,
                   page, mc, tuner>>

\* the component holds an MDP and a start state, and either no result or the
\* result of an optimization: a policy over the states that have actions
InitEvaluate ==
    /\ \E trans \in SimShapes, g \in {Undef, Some(Half)} : mdp = MkMdp(trans, g)
    /\ startState = "A"
    /\ \E r \in {Undef} \cup {Some([bestPolicy |-> p]) : p \in InitialPolicies(mdp)} :
          agent = [pc |-> "ready", mdp |-> mdp, optimizationResult |-> r,
                   isRunning |-> FALSE, evaluationResult |-> Undef]
    /\ sim = Idle
    /\ config = Idle
    /\ callback = "none"
    /\ vi = Idle
    /\ pi = Idle
    /\ rob = Idle
    /\ sweep = Idle
    /\ run = Idle
    /\ page = Idle
    /\ mc = Idle
    /\ tuner = Idle

NextEvaluate ==
    \/ EvaluateWithoutResult \/ evaluatePolicy \/ EvaluationDone
    \/ SimReturnNoActions \/ SimReturnNoOutcomes \/ SimStep \/ SimReturnMaxSteps

SpecEvaluate == InitEvaluate /\ [][NextEvaluate]_vars

(***************************************************************************)
(* runMonteCarlo: sim.ts 83-150.  An object used as a counter table is a   *)
(* function from its keys; pathCounts, whose key order the sort sees, is   *)
(* the sequence of its entries in insertion order.  The key of a           *)
(* transition is the sequence of the pieces its template joins.            *)
(***************************************************************************)
\* table[key] = (table[key] ?? 0) + c
AddCount(table, key, c) ==
    IF key \in DOMAIN table THEN [table EXCEPT ![key] = @ + c]
    ELSE (key :> c) @@ table

\* lines 109-111: the visit counts of one episode added to visits
RECURSIVE AddVisits(_, _)
AddVisits(visits, visited) ==
    IF DOMAIN visited = {} THEN visits
    ELSE LET st == CHOOSE s \in DOMAIN visited : TRUE
         IN  AddVisits(AddCount(visits, st, visited[st]),
                       [s \in DOMAIN visited \ {st} |-> visited[s]])

\* line 119: `${from}-${action}->${to}`
TransitionKey(from, action, to) == <<from, "-", action, "->", to>>

\* lines 114-123 from index j on: tables = [transitionCounts, actionCounts]
RECURSIVE CountSteps(_, _, _)
CountSteps(tables, res, j) ==
    IF j > Len(res.path) - 1 THEN tables
    ELSE CountSteps(
            [transitionCounts |->
                AddCount(tables.transitionCounts,
                         TransitionKey(res.path[j], res.actions[j], res.path[j + 1]), 1),
             actionCounts |-> AddCount(tables.actionCounts, res.actions[j], 1)],
            res, j + 1)

\* lines 126-127: pathCounts[pathKey] = (pathCounts[pathKey] ?? 0) + 1
CountPath(pathCounts, pathKey) ==
    IF \E i \in 1..Len(pathCounts) : pathCounts[i].path = pathKey
    THEN [i \in 1..Len(pathCounts) |->
            IF pathCounts[i].path = pathKey
            THEN [pathCounts[i] EXCEPT !.count = @ + 1] ELSE pathCounts[i]]
    ELSE Append(pathCounts, [path |-> pathKey, count |-> 1])

\* faulty variant: ascending order
MutPathOrder(a, b) == a.count - b.count

\* line 132: the comparator ([,a], [,b]) => b - a
PathOrder(a, b) == b.count - a.count

\* Array.prototype.sort with that comparator: a stable insertion of x into
\* the sorted sequence
RECURSIVE InsertSorted(_, _)
InsertSorted(sorted, x) ==
    IF sorted = <<>> THEN <<x>>
    ELSE IF PathOrder(sorted[Len(sorted)], x) <= 0 THEN Append(sorted, x)
    ELSE Append(InsertSorted(SubSeq(sorted, 1, Len(sorted) - 1), x), sorted[Len(sorted)])

RECURSIVE SortPaths(_)
SortPaths(entries) ==
    IF entries = <<>> THEN <<>>
    ELSE InsertSorted(SortPaths(SubSeq(entries, 1, Len(entries) - 1)),
                      entries[Len(entries)])

\* line 133: slice(0, 5)
TopPaths == 5

RECURSIVE SumSeq(_)
SumSeq(xs) == IF xs = <<>> THEN 0 ELSE Head(xs) + SumSeq(Tail(xs))

\* lines 99-128: one pass of the episode loop with the EpisodeResult the
\* draws of simulateEpisode give
RunEpisode ==
    /\ mc.pc = "loop"
    /\ mc.i < mc.episodes
    /\ \E res \in simulateEpisode(mdp, startState, mc.maxSteps) :
          mc' = Only({[mc EXCEPT
                         !.i = @ + 1,
                         !.rewards = Append(@, res.totalReward),
                         !.rewardAcc = RAdd(@, res.totalReward),
                         !.stepAcc = @ + res.steps,
                         !.pathLengths = Append(@, Len(res.path)),
                         !.terminals = AddCount(@, res.terminal, 1),
                         !.visits = AddVisits(@, res.visited),
                         !.transitionCounts = tables.transitionCounts,
                         !.actionCounts = tables.actionCounts,
                         !.pathCounts = CountPath(@, res.path)]
                      : tables \in {CountSteps([transitionCounts |-> mc.transitionCounts,
                                                actionCounts |-> mc.actionCounts],
                                               res, 1)}})
    /\ UNCHANGED <<mdp, startState, config, callback, vi, pi, rob, sweep, sim, run,
                   page, agent, tuner>>

\* lines 130-149: the summary
McReturn ==
    /\ mc.pc = "loop"
    /\ mc.i >= mc.episodes
    /\ mc' = [pc |-> "returned",
              summary |->
                 [episodes |-> mc.episodes,
                  avgTotalReward |-> RDiv(mc.rewardAcc, R(mc.episodes)),
                  terminalDist |-> mc.terminals,
                  avgSteps |-> Rat(mc.stepAcc, mc.episodes),
                  visitCounts |-> mc.visits,
                  rewards |-> mc.rewards,
                  transitionCounts |-> mc.transitionCounts,
                  actionCounts |-> mc.actionCounts,
                  pathAnalysis |->
                     [avgPathLength |-> Rat(SumSeq(mc.pathLengths), Len(mc.pathLengths)),
                      mostCommonPaths |->
                         SubSeq(SortPaths(mc.pathCounts), 1,
                                IF Len(mc.pathCounts) < TopPaths
                                THEN Len(mc.pathCounts) ELSE TopPaths)]]]
    /\ UNCHANGED <<mdp, startState, config, callback, vi, pi, rob, sweep, sim, run,
                   page, agent, tuner>>

\* an MDP whose episodes of one step have six different paths: two actions
\* of three outcomes each, every reward 0
FanMdp ==
    [states |-> Some(<<"A", "B", "C", "D", "E", "F", "G">>), gamma |-> Undef,
     transitions |->
        <<Entry("A", "x", <<Out("B", <<1, 4>>, 0), Out("C", <<1, 4>>, 0),
                            Out("D", Half, 0)>>),
          Entry("A", "y", <<Out("E", <<1, 4>>, 0), Out("F", <<1, 4>>, 0),
                            Out("G", Half, 0)>>)>>]

\* lines 89-97.  The MDPs of MdpShapes are run for up to MaxEpisodes episodes
\* of up to two steps, FanMdp for one episode more than the summary keeps
\* paths
InitMc ==
    /\ \E episodes \in 1..(TopPaths + 1), maxSteps \in 1..2 :
          /\ \/ /\ mdp \in {MkMdp(trans, Undef) : trans \in MdpShapes}
                /\ episodes <= MaxEpisodes
             \/ /\ mdp = FanMdp
                /\ episodes = TopPaths + 1
                /\ maxSteps = 1
          /\ mc = [pc |-> "loop", i |-> 0, episodes |-> episodes, maxSteps |-> maxSteps,
                   rewardAcc |-> Zero, stepAcc |-> 0, terminals |-> <<>>,
                   visits |-> <<>>, rewards |-> <<>>, transitionCounts |-> <<>>,
                   actionCounts |-> <<>>, pathLengths |-> <<>>, pathCounts |-> <<>>]
    /\ startState = "A"
    /\ config = Idle
    /\ callback = "none"
    /\ vi = Idle
    /\ pi = Idle
    /\ rob = Idle
    /\ sweep = Idle
    /\ sim = Idle
    /\ run = Idle
    /\ page = Idle
    /\ agent = Idle
    /\ tuner = Idle

NextMc == RunEpisode \/ McReturn

SpecMc == InitMc /\ [][NextMc]_vars

(***************************************************************************)
(* HyperparameterTuner: HyperparameterTuner.tsx 52-176.  tuner holds the   *)
(* component's state (isTuning, currentTrial, bestResult, tuningHistory)   *)
(* and, while startTuning runs, the constants of the closure it was        *)
(* created in: `closure` is the bestResult of the render the clicked       *)
(* handler belongs to, which no setBestResult of the run changes.  called  *)
(* lists the calls of onTuningComplete made by the current run.            *)
(* stopTuning, which only clears isTuning, and a second click while a run  *)
(* is still awaiting are left out.                                         *)
(***************************************************************************)
\* lines 67-80
calculateScore(result, metric) ==
    CASE metric = "value" -> result.bestValue
      [] metric = "convergence" -> RNeg(R(result.iterations))
      [] metric = "efficiency" ->
            RDiv(result.bestValue,
                 R(IF result.iterations < 1 THEN 1 ELSE result.iterations))
      [] OTHER -> result.bestValue

\* configurations generateRandomConfig (lines 82-121) can return for the
\* default ranges: gamma in [0.7, 0.99), maxIterations in [100, 1000),
\* tolerance in [1e-6, 1e-4)
TunerConfigs ==
    {MkConfig(100, Some(<<1, 1000000>>), Some(g))
        : g \in {<<7, 10>>, <<8, 10>>, <<9, 10>>}}

\* acyclic MDPs whose best value depends on gamma
TunerMdps ==
    {MkMdp(<<Entry("A", "x", <<Out("B", One, r)>>),
             Entry("B", "x", <<Out("C", One, 1)>>)>>, Undef) : r \in {0, 1}}

\* number of runs of startTuning followed
MaxRuns == 2

\* number of trials of a run
MaxTrials == 3

\* line 163: !bestResult || score > bestResult.score, bestResult being the
\* closure's constant
KeepsTrial(closure, score) ==
    closure = Undef \/ RGt(score, closure[1].score)

\* lines 142-146: a click on Start Tuning (disabled while isTuning)
startTuning ==
    /\ tuner.pc = "idle"
    /\ ~tuner.isTuning
    /\ tuner.runs < MaxRuns
    /\ tuner' = [tuner EXCEPT !.pc = "loop", !.closure = tuner.bestResult,
                              !.isTuning = TRUE, !.currentTrial = 0,
                              !.bestResult = Undef, !.tuningHistory = <<>>,
                              !.trial = 0, !.called = <<>>, !.runs = @ + 1]
    /\ UNCHANGED <<mdp, startState, config, callback, vi, pi, rob, sweep, sim, run,
                   page, agent, mc>>

\* lines 148-169: one pass of the trial loop
TuningTrial ==
    /\ tuner.pc = "loop"
    /\ tuner.trial < tuner.maxTrials
    /\ \E c \in TunerConfigs :
          tuner' = Only({[tuner EXCEPT
                            !.currentTrial = tuner.trial + 1,
                            !.tuningHistory = Append(@, tuningResult),
                            !.bestResult =
                                IF KeepsTrial(tuner.closure, tuningResult.score)
                                THEN Some(tuningResult) ELSE @,
                            !.trial = @ + 1]
                         : tuningResult \in
                             {[config |-> c, result |-> result,
                               score |-> calculateScore(result, tuner.metric)]
                              : result \in {RunVI(mdp, c)}}})
    /\ UNCHANGED <<mdp, startState, config, callback, vi, pi, rob, sweep, sim, run,
                   page, agent, mc>>

\* lines 171-175: after the loop
TuningFinish ==
    /\ tuner.pc = "loop"
    /\ tuner.trial >= tuner.maxTrials
    /\ tuner' = [tuner EXCEPT
                    !.pc = "idle", !.isTuning = FALSE,
                    !.called = IF tuner.closure # Undef
                               THEN Append(@, [config |-> tuner.closure[1].config,
                                               result |-> tuner.closure[1].result])
                               ELSE @]
    /\ UNCHANGED <<mdp, startState, config, callback, vi, pi, rob, sweep, sim, run,
                   page, agent, mc>>

\* lines 52-65: the mounted component
InitTuner ==
    /\ mdp \in TunerMdps
    /\ startState = "A"
    /\ \E metric \in {"value", "convergence", "efficiency"}, maxTrials \in 1..MaxTrials :
          tuner = [pc |-> "idle", isTuning |-> FALSE, currentTrial |-> 0,
                   bestResult |-> Undef, tuningHistory |-> <<>>, closure |-> Undef,
                   trial |-> 0, maxTrials |-> maxTrials, metric |-> metric,
                   called |-> <<>>, runs |-> 0]
    /\ config = Idle
    /\ callback = "none"
    /\ vi = Idle
    /\ pi = Idle
    /\ rob = Idle
    /\ sweep = Idle
    /\ sim = Idle
    /\ run = Idle
    /\ page = Idle
    /\ agent = Idle
    /\ mc = Idle

NextTuner == startTuning \/ TuningTrial \/ TuningFinish

SpecTuner == InitTuner /\ [][NextTuner]_vars

(***************************************************************************)
(* Claims about valueIteration (checked under SpecVI)                      *)
(***************************************************************************)
VIDone == vi.pc = "done"

\* The first action of s, in enumeration order, whose one-step lookahead over
\* v is not exceeded by any action of s.
FirstArgmax(m, g, v, s) ==
    LET acts == actionsFromState(m, s)
        val(i) == ActionValue(m, g, v, s, acts[i])
        best == CHOOSE i \in 1..Len(acts) :
                    /\ \A j \in 1..Len(acts) : RLe(val(j), val(i))
                    /\ \A j \in 1..(i - 1) : RLt(val(j), val(i))
    IN  acts[best]

VIGamma == GammaOf(mdp, config)

\* C1 (as claimed): for every state with an available action, the returned
\* bestPolicy[s] is the first action, in actionsFromState order, that attains
\* the maximum one-step lookahead over the returned valueFunction.
C1_PolicyIsFirstArgmax ==
    VIDone =>
        \A s \in Deciding(mdp) :
            vi.result.bestPolicy[s]
                = FirstArgmax(mdp, VIGamma, vi.result.valueFunction, s)

\* the sequence has an entry below the tolerance
HasEntryBelow(hist, tol) == \E i \in 1..Len(hist) : RLt(hist[i], tol)

NonNegative(hist) == \A i \in 1..Len(hist) : RLe(Zero, hist[i])

\* C3 (as claimed): every entry of the delta sequence is non-negative, and
\* when gamma < 1 (and at least one sweep is allowed) the sequence contains an
\* entry below tolerance within maxIterations sweeps.
C3_ConvergesWithinMaxIterations ==
    VIDone =>
        /\ NonNegative(vi.result.deltaHistory)
        /\ (RLt(VIGamma, One) /\ MaxIterationsOf(config) >= 1)
              => HasEntryBelow(vi.result.deltaHistory, ToleranceOf(config))

\* C3 (amended): every entry of deltaHistory and of convergenceHistory is
\* non-negative, and the sequence contains an entry below tolerance (its last
\* one) unless all maxIterations sweeps were performed.
C3_NonNegativeAndBelowToleranceUnlessExhausted ==
    VIDone =>
        LET hist == vi.result.deltaHistory IN
        /\ NonNegative(hist)
        /\ vi.result.convergenceHistory = hist
        /\ Len(hist) <= MaxIterationsOf(config)
        /\ Len(hist) < MaxIterationsOf(config)
              => RLt(hist[Len(hist)], ToleranceOf(config))

\* a contractive run that used its whole budget without converging, and one
\* that converged before the budget was used
C3_Witness ==
    /\ VIDone
    /\ RLt(VIGamma, One)
    /\ Len(vi.result.deltaHistory) >= 2
    /\ Len(vi.result.deltaHistory) < MaxIterationsOf(config)
    /\ RLt(Zero, vi.result.deltaHistory[1])

\* valueIteration on the MDP with every reward doubled, same configuration
VIOnDoubled == RunVI(ScaleRewards(mdp, R(2)), config)

\* C4 (as claimed): bestValue on the doubled MDP is exactly twice bestValue
\* on the original MDP.
C4_DoubledRewardsDoubleBestValue ==
    VIDone => VIOnDoubled.bestValue = RMul(R(2), vi.result.bestValue)

\* C4 (amended): bestValue on the doubled MDP is exactly twice bestValue on
\* the original whenever both runs perform the same number of sweeps (the
\* test delta < tolerance is absolute, so the doubled run may stop later).
C4_DoubledWhenSameSweeps ==
    VIDone =>
        (VIOnDoubled.iterations = vi.result.iterations
            => /\ VIOnDoubled.bestValue = RMul(R(2), vi.result.bestValue)
               /\ \A s \in StateSet(mdp) :
                    VIOnDoubled.valueFunction[s]
                        = RMul(R(2), vi.result.valueFunction[s]))

C4_Witness ==
    /\ VIDone
    /\ vi.result.iterations >= 2
    /\ VIOnDoubled.iterations = vi.result.iterations
    /\ RLt(Zero, vi.result.bestValue)
    /\ \E i \in 1..Len(mdp.transitions) :
          \E j \in 1..Len(mdp.transitions[i].outcomes) :
              mdp.transitions[i].outcomes[j].reward = Undef

\* The chain A -> B -> C of end-to-end scenario 1
ChainMdp ==
    MkMdp(<<Entry("A", "x", <<Out("B", One, 1)>>),
            Entry("B", "x", <<Out("C", One, 10)>>)>>, Undef)

\* the run is on the chain with gamma = 0.9 and it stopped by delta < tolerance
ChainConverged ==
    /\ VIDone
    /\ mdp = ChainMdp
    /\ config.gamma = Undef
    /\ HasEntryBelow(vi.result.deltaHistory, ToleranceOf(config))

\* |a - b| <= 0.05: a and b agree to one decimal place
About(a, b) == RLe(RAbs(RSub(a, b)), <<1, 20>>)

\* C5 (as claimed): on the chain valueIteration converges to V(A) of about
\* 10.9 and returns the policy {A: x, B: x} with C omitted.
C5_ChainValueAbout10_9 ==
    ChainConverged =>
        /\ About(vi.result.valueFunction["A"], <<109, 10>>)
        /\ vi.result.bestPolicy = [s \in {"A", "B"} |-> "x"]

\* C5 (amended): on the chain valueIteration converges to V(A) = 10
\* (1 + 0.9 * 10), V(B) = 10, V(C) = 0, bestValue 10, in three sweeps, and
\* returns the policy {A: x, B: x} with C omitted.
C5_ChainValueIs10 ==
    ChainConverged =>
        /\ vi.result.valueFunction = [s \in {"A", "B", "C"} |->
                                        IF s = "C" THEN Zero ELSE R(10)]
        /\ vi.result.bestValue = R(10)
        /\ vi.result.iterations = 3
        /\ vi.result.bestPolicy = [s \in {"A", "B"} |-> "x"]

C5_Witness == ChainConverged /\ config.tolerance = Undef

(***************************************************************************)
(* Claims about policyIteration (checked under SpecPI)                     *)
(***************************************************************************)
PIDone == pi.pc = "done"

\* the policy before improvement pass i
PolicyBefore(i) == IF i = 1 THEN pi.policy0 ELSE pi.result.policyHistory[i - 1]

\* the returned policy is greedy (first argmax) for the returned values
PIReturnsGreedy ==
    \A s \in Deciding(mdp) :
        pi.result.bestPolicy[s]
            = FirstArgmax(mdp, GammaOf(mdp, config), pi.result.valueFunction, s)

\* an improvement pass that changes nothing ends the loop: every pass but the
\* last changed the policy, the loop stopped short of maxIterations only
\* after a pass that changed nothing, and the result is the policy of the
\* last pass
PIStopsWhenStable ==
    LET hist == pi.result.policyHistory IN
    /\ \A i \in 1..(Len(hist) - 1) : hist[i] # PolicyBefore(i)
    /\ Len(hist) < MaxIterationsOf(config)
          => Len(hist) >= 1 /\ hist[Len(hist)] = PolicyBefore(Len(hist))
    /\ Len(hist) >= 1 => pi.result.bestPolicy = hist[Len(hist)]
    /\ pi.stable <=> (Len(hist) >= 1 /\ hist[Len(hist)] = PolicyBefore(Len(hist)))

\* C2 (as claimed): at most maxIterations outer sweeps; the returned policy
\* is greedy for the returned valueFunction in every state with actions; the
\* loop stops at the first improvement pass that changes no action.
C2_TerminatesWithGreedyPolicy ==
    PIDone =>
        /\ pi.result.iterations <= MaxIterationsOf(config)
        /\ PIReturnsGreedy
        /\ PIStopsWhenStable

\* C2 (amended): the same, for maxIterations >= 1; with maxIterations = 0 no
\* sweep runs and the random initial policy is returned with an empty
\* valueFunction.
C2_TerminatesWithGreedyPolicyAfterOneSweep ==
    PIDone =>
        /\ pi.result.iterations <= MaxIterationsOf(config)
        /\ pi.result.iterations = Len(pi.result.policyHistory)
        /\ MaxIterationsOf(config) >= 1 => PIReturnsGreedy /\ PIStopsWhenStable
        /\ MaxIterationsOf(config) = 0
              => pi.result.bestPolicy = pi.policy0 /\ pi.result.valueFunction = <<>>

\* a run whose first pass changed the policy and whose second pass found it
\* stable, in a state with two actions
C2_Witness ==
    /\ PIDone
    /\ pi.stable
    /\ pi.result.iterations = 2
    /\ pi.result.bestPolicy # pi.policy0
    /\ Len(actionsFromState(mdp, "A")) = 2

(***************************************************************************)
(* Claims about robustOptimizeMDP, checked under SpecRobust                *)
(***************************************************************************)
RobustTried == rob.pc \in {"select", "resolved", "rejected"}

\* the discounted return of taking action a in state s and acting optimally
\* afterwards, on a deterministic acyclic MDP
RECURSIVE ActionReturn(_, _, _, _)
ActionReturn(m, g, s, a) ==
    LET t == transitionsFor(m, s, a)[1]
        acts == actionsFromState(m, t.nextState)
        onward == IF acts = <<>> THEN Zero
                  ELSE RMaxSeq([i \in 1..Len(acts) |->
                                   ActionReturn(m, g, t.nextState, acts[i])])
    IN  RAdd(OrElse(t.reward, Zero), RMul(g, onward))

\* a is strictly better than every other action of s, of which there is one
StrictlyDominant(m, g, s, a) ==
    LET acts == Range(actionsFromState(m, s))
    IN  /\ a \in acts
        /\ acts # {a}
        /\ \A b \in acts \ {a} : RGt(ActionReturn(m, g, s, a), ActionReturn(m, g, s, b))

\* the states are A and C and every transition stays among them
TwoStateDeterministic(m) ==
    /\ m.states = Some(<<"A", "C">>)
    /\ IsDeterministic(m)
    /\ \A e \in Range(m.transitions) :
          /\ e.state \in {"A", "C"}
          /\ \A o \in Range(e.outcomes) : o.nextState \in {"A", "C"}

\* C6: on a 2-state deterministic MDP with a strictly dominant action at the
\* start state, each of the four methods returns a bestPolicy that selects
\* the dominant action there (no callback fault, at least one sweep allowed).
C6_EveryMethodSelectsDominantAction ==
    (/\ RobustTried
     /\ callback = "none"
     /\ MaxIterationsOf(config) >= 1
     /\ TwoStateDeterministic(mdp))
        => \A a \in Range(actionsFromState(mdp, startState)) :
              StrictlyDominant(mdp, GammaOf(mdp, config), startState, a)
                 => /\ Len(rob.results) = Len(Methods)
                    /\ \A i \in 1..Len(rob.results) :
                          rob.results[i].result.bestPolicy[startState] = a

\* the composite score as the claim writes it
CompositeScore(v) ==
    RAdd(RAdd(RMul(<<2, 5>>, v.mcReward), RMul(<<3, 10>>, v.successRate)),
         RAdd(RMul(<<1, 5>>, RDiv(One, RAdd(One, v.mcStdDev))),
              RMul(<<1, 10>>, v.pathEfficiency)))

\* candidate i scores at least as much as every candidate and strictly more
\* than every earlier one
WinsSelection(results, i) ==
    /\ \A j \in 1..Len(results) :
          RLe(CompositeScore(results[j].validation), CompositeScore(results[i].validation))
    /\ \A j \in 1..(i - 1) :
          RLt(CompositeScore(results[j].validation), CompositeScore(results[i].validation))

\* C7: the value returned by robustOptimizeMDP is built from the candidate
\* with the maximal composite score, the earliest such candidate on a tie:
\* its method name, bestPolicy, actualPerformance and validationResults are
\* that candidate's.
C7_ReturnsMaxScoreCandidate ==
    rob.pc = "resolved" =>
        \E i \in 1..Len(rob.results) :
            /\ WinsSelection(rob.results, i)
            /\ rob.value.method = rob.results[i].method
            /\ rob.value.bestPolicy = rob.results[i].result.bestPolicy
            /\ rob.value.actualPerformance = rob.results[i].validation.mcReward
            /\ rob.value.validationResults = rob.results[i].validation

\* a call whose first candidate lost to a later one, and in which two
\* candidates tied on the winning score
C7_Witness ==
    /\ rob.pc = "resolved"
    /\ Len(rob.results) = Len(Methods)
    /\ rob.value.method # rob.results[1].method
    /\ \E i, j \in 1..Len(rob.results) :
          /\ i < j
          /\ WinsSelection(rob.results, i)
          /\ CompositeScore(rob.results[j].validation)
                = CompositeScore(rob.results[i].validation)

\* the methods of the candidates, in order
CandidateMethods(results) == [i \in 1..Len(results) |-> results[i].method]

\* C8: after the loop every method is either a candidate or was logged as
\* failed, never both, and the candidates keep the run order; the call is
\* rejected with "No optimization methods succeeded" exactly when all four
\* methods threw, and otherwise resolves with one of the candidates.
C8_FailsOnlyWhenAllMethodsThrow ==
    RobustTried =>
        /\ Range(CandidateMethods(rob.results)) \cup Range(rob.warned) = Range(Methods)
        /\ Range(CandidateMethods(rob.results)) \cap Range(rob.warned) = {}
        /\ Len(rob.results) + Len(rob.warned) = Len(Methods)
        /\ CandidateMethods(rob.results)
              = SelectSeq(Methods, LAMBDA n : n \notin Range(rob.warned))
        /\ rob.pc = "rejected" => Len(rob.warned) = Len(Methods) /\ rob.error = NoMethodError
        /\ rob.pc = "resolved"
              => /\ Len(rob.warned) < Len(Methods)
                 /\ rob.value.method \in Range(CandidateMethods(rob.results))

\* a call in which some but not all methods threw and which resolved
C8_Witness ==
    /\ rob.pc = "resolved"
    /\ rob.warned # <<>>
    /\ Len(rob.results) >= 2

\* a call in which all four methods threw
C8_AllThrew == rob.pc = "rejected"

(***************************************************************************)
(* Claims about robustOptimizeMDPConfiguration, checked under SpecSweep    *)
(***************************************************************************)
SweepResolved == sweep.pc = "resolved"

\* every variant's call to robustOptimizeMDP was rejected
AllVariantsFailed == Len(sweep.failed) = Len(Variants(mdp))

\* C9: when every method fails for every variant, the promise does not
\* resolve with a result.
C9_ExhaustionIsNotResolved == ~(SweepResolved /\ AllVariantsFailed)

VariantScore(entry) == RMul(entry.result.actualPerformance, entry.result.confidence)

\* history entry i has the maximal actualPerformance * confidence and is the
\* earliest entry that has it
BestEntry(history, i) ==
    /\ \A j \in 1..Len(history) : RLe(VariantScore(history[j]), VariantScore(history[i]))
    /\ \A j \in 1..(i - 1) : RLt(VariantScore(history[j]), VariantScore(history[i]))

\* C10: the nine variants (five gammas, four reward scales) are all tried,
\* optimizationHistory holds the ones that succeeded in the order tried, and
\* bestResult/bestMdp are the result and the MDP of the history entry with
\* the maximal actualPerformance * confidence, the earliest on a tie.
C10_KeepsBestVariant ==
    SweepResolved =>
        LET history == sweep.value.optimizationHistory
            variants == Variants(mdp)
            tried == SelectSeq([k \in 1..Len(variants) |-> k],
                               LAMBDA k : k \notin Range(sweep.failed))
        IN  /\ Len(variants) = 9
            /\ \A k \in 1..5 : variants[k].gamma = Some(GammaValues[k])
            /\ Len(history) + Len(sweep.failed) = Len(variants)
            /\ [i \in 1..Len(history) |-> history[i].mdp]
                  = [i \in 1..Len(tried) |-> variants[tried[i]]]
            /\ history # <<>> =>
                  \E i \in 1..Len(history) :
                      /\ BestEntry(history, i)
                      /\ sweep.value.bestResult = Some(history[i].result)
                      /\ sweep.value.bestMdp = history[i].mdp

\* a sweep whose best variant is neither the first nor the last recorded and
\* in which a later variant ties with it
C10_Witness ==
    /\ SweepResolved
    /\ Len(sweep.value.optimizationHistory) = 9
    /\ \E i, j \in 2..9 :
          /\ i < j
          /\ BestEntry(sweep.value.optimizationHistory, i)
          /\ VariantScore(sweep.value.optimizationHistory[j])
                = VariantScore(sweep.value.optimizationHistory[i])

(***************************************************************************)
(* Claims about single solver runs (checked under SpecSolver)              *)
(***************************************************************************)
SolverReturned(names) == run.pc = "returned" /\ run.solver \in names

\* qTable[s][a] exists and is a number
HasQEntry(q, s, a) == s \in DOMAIN q /\ a \in DOMAIN q[s] /\ IsFinite(q[s][a])

\* C11: after qLearning or sarsa returns, qTable[s][a] exists and is a
\* defined number for every key "s|a" of mdp.transitions.
C11_QTableCoversEveryKey ==
    SolverReturned({"qLearning", "sarsa"}) =>
        \A e \in Range(mdp.transitions) :
            HasQEntry(run.result.qTable, e.state, e.action)

(***************************************************************************)
(* Claims about the simulator (checked under SpecSim and FairSim)          *)
(***************************************************************************)
\* the indices of outs whose cumulative probability is at least r
ReachingIndices(outs, r) == {i \in 1..Len(outs) : RLe(r, Cumulative(outs, i))}

\* the first outcome whose cumulative probability is at least r, or the last
\* outcome when there is none
FirstReaching(outs, r) ==
    IF ReachingIndices(outs, r) = {} THEN outs[Len(outs)]
    ELSE outs[CHOOSE i \in ReachingIndices(outs, r) :
                  \A j \in ReachingIndices(outs, r) : i <= j]

\* C12: on a non-empty outcome list and a draw r in [0,1), sampleNext does
\* not throw and returns the first outcome whose cumulative probability is at
\* least r, or the last outcome when no cumulative probability reaches r.
C12_SampleNextPicksFirstReaching ==
    /\ sim.pc # "thrown"
    /\ (sim.pc = "loop" /\ sim.sampled # Undef) =>
          LET last == sim.sampled[1]
          IN  /\ last.transitions # <<>>
              /\ last.t = FirstReaching(last.transitions, last.r)

\* a draw above the total of a list summing to 3/4 selected the last outcome
C12_Witness ==
    /\ sim.pc = "loop"
    /\ sim.sampled # Undef
    /\ ReachingIndices(sim.sampled[1].transitions, sim.sampled[1].r) = {}
    /\ Len(sim.sampled[1].transitions) = 2
    /\ sim.sampled[1].t = sim.sampled[1].transitions[2]

SimReturned == sim.pc = "returned"

\* C13: from a start state without available actions simulateEpisode returns
\* at once with steps = 0, terminal = start and totalReward = 0, whatever
\* maxSteps >= 1 is.
C13_NoActionStartReturnsAtOnce ==
    (SimReturned /\ sim.maxSteps >= 1 /\ actionsFromState(mdp, startState) = <<>>) =>
        /\ sim.result.steps = 0
        /\ sim.result.terminal = startState
        /\ sim.result.totalReward = Zero
        /\ sim.result.path = <<startState>>

\* an episode from an absorbing start state returned under the largest maxSteps
C13_Witness ==
    /\ SimReturned
    /\ actionsFromState(mdp, startState) = <<>>
    /\ sim.maxSteps = MaxSimSteps
    /\ sim.result.steps = 0

\* the three reasons for an episode to stop, read off the returned result
StoppedAtMaxSteps == sim.result.steps = sim.maxSteps

StoppedWithoutActions ==
    /\ sim.result.steps < sim.maxSteps
    /\ actionsFromState(mdp, sim.result.terminal) = <<>>

StoppedWithoutOutcomes ==
    /\ sim.result.steps < sim.maxSteps
    /\ \E a \in Range(actionsFromState(mdp, sim.result.terminal)) :
          transitionsFor(mdp, sim.result.terminal, a) = <<>>

\* nothing was raised, and a returned episode took at most maxSteps steps,
\* ended in the last state of its path and stopped for exactly one reason,
\* the one of the return statement it left through
SimStopsForOneReason ==
    /\ sim.pc # "thrown"
    /\ SimReturned =>
          /\ sim.result.steps <= sim.maxSteps
          /\ sim.result.steps = Len(sim.result.actions)
          /\ sim.result.terminal = sim.result.path[Len(sim.result.path)]
          /\ (sim.exit = "maxSteps") = StoppedAtMaxSteps
          /\ (sim.exit = "noActions") = StoppedWithoutActions
          /\ (sim.exit = "noOutcomes") = StoppedWithoutOutcomes
          /\ sim.exit \in {"maxSteps", "noActions", "noOutcomes"}

\* C14: simulateEpisode always terminates and returns without raising, with
\* steps <= maxSteps, for exactly one of three reasons: maxSteps reached, no
\* action in the current state, or an empty outcome list of the chosen action
\* (terminal being that current state).
C14_EpisodeTerminatesForOneReason == <>SimReturned /\ []SimStopsForOneReason

\* an episode that took a step and then drew an action without outcomes
C14_Witness ==
    /\ SimReturned
    /\ sim.exit = "noOutcomes"
    /\ sim.result.steps >= 1
    /\ sim.result.terminal = "A"

AnySolverReturned == SolverReturned(Solvers)

\* C15: for each of the seven solvers, bestPolicy is defined exactly on the
\* states of mdp.states that have an available action, and maps each to one
\* of its available actions.
C15_PolicyDomainIsDecidingStates ==
    AnySolverReturned =>
        /\ DOMAIN run.result.bestPolicy = Deciding(mdp)
        /\ \A s \in DOMAIN run.result.bestPolicy :
              run.result.bestPolicy[s] \in Range(actionsFromState(mdp, s))

\* a returned run on an MDP in which "B" has a transition key but is not
\* listed in mdp.states, and "A" has two actions of which the second was kept
C15_Witness ==
    /\ AnySolverReturned
    /\ run.solver = "qLearning"
    /\ actionsFromState(mdp, "B") # <<>>
    /\ "B" \notin StateSet(mdp)
    /\ DOMAIN run.result.bestPolicy = {"A"}
    /\ run.result.bestPolicy["A"] = "y"

\* C16: for each of the seven solvers, valueFunction has an entry for every
\* state of mdp.states, and the entry of every state without actions is 0.
C16_ValueFunctionCoversStates ==
    AnySolverReturned =>
        /\ DOMAIN run.result.valueFunction = StateSet(mdp)
        /\ \A s \in StateSet(mdp) \ Deciding(mdp) : run.result.valueFunction[s] = Zero

\* C17: for each solver and every start state, convergenceHistory has one
\* entry per iteration or episode performed and iterations is their number.
C17_IterationsIsHistoryLength ==
    AnySolverReturned =>
        Len(run.result.convergenceHistory) = run.result.iterations

\* C18: with an onProgress callback, every solver calls it exactly once after
\* each iteration or episode, in increasing order, so that the number of
\* calls is result.iterations.
C18_ProgressOncePerIteration ==
    (AnySolverReturned /\ callback # "none") =>
        run.calls = [i \in 1..run.result.iterations |-> i - 1]

\* the first action of acts, in enumeration order, whose entry of q[s] is not
\* exceeded by the entry of any action of acts
FirstArgmaxQ(q, s, acts) ==
    acts[CHOOSE i \in 1..Len(acts) :
            /\ \A j \in 1..Len(acts) : RLe(QLookup(q, s, acts[j]), QLookup(q, s, acts[i]))
            /\ \A j \in 1..(i - 1) : RLt(QLookup(q, s, acts[j]), QLookup(q, s, acts[i]))]

\* a second call of valueIteration returned what the first call returned
SecondRunAgrees ==
    run.pc = "repeated" =>
        /\ run.again.valueFunction = run.result.valueFunction
        /\ run.again.bestPolicy = run.result.bestPolicy

\* the policy extracted from a returned Q-table is, state by state, the first
\* maximal action in the order actionsFromState enumerates them
ExtractionFollowsEnumerationOrder ==
    SolverReturned({"qLearning", "sarsa"}) =>
        \A s \in Deciding(mdp) :
            run.result.bestPolicy[s] =
                FirstArgmaxQ(run.result.qTable, s, actionsFromState(mdp, s))

ConfidenceAtZeroReward(v) ==
    LET consistency == RMax(Zero, RSub(One, v.mcStdDev))
        efficiency == RMax(Zero, RMin(One, v.pathEfficiency))
        sum == RAdd(RAdd(RMul(v.successRate, <<2, 5>>), RMul(consistency, <<3, 10>>)),
                    RMul(efficiency, <<1, 5>>))
    IN  RMin(One, RMax(Zero, sum))

\* C20: for every validation result (successRate in [0,1], mcStdDev >= 0,
\* mcReward any finite value, zero and negative included) calculateConfidence
\* returns a finite value in [0,1]; for mcReward = 0 the consistency ratio is
\* taken over the denominator 1.
C20_ConfidenceWithinUnitInterval ==
    run.pc = "returned" =>
        /\ IsFinite(run.confidence)
        /\ RLe(Zero, run.confidence)
        /\ RLe(run.confidence, One)
        /\ run.validation.mcReward = Zero =>
              run.confidence = ConfidenceAtZeroReward(run.validation)

\* a result of zero reward and deviation 1/2, scored 3/10 * 1/2 for its
\* consistency
C20_Witness ==
    /\ run.pc = "returned"
    /\ run.validation.mcReward = Zero
    /\ run.validation.mcStdDev = Half
    /\ run.validation.successRate = Zero
    /\ run.validation.pathEfficiency = Zero
    /\ run.confidence = <<3, 20>>

(***************************************************************************)
(* Further claims about valueIteration (checked under SpecVI)              *)
(***************************************************************************)
\* max over the listed states of |vNew(s) - vOld(s)|, 0 when there is none
MaxDiff(vOld, vNew) ==
    LET states == DOMAIN vOld
    IN  IF states = {} THEN Zero
        ELSE LET s == CHOOSE t \in states :
                        \A u \in states :
                            RLe(RAbs(RSub(vNew[u], vOld[u])), RAbs(RSub(vNew[t], vOld[t])))
             IN  RAbs(RSub(vNew[s], vOld[s]))

\* the deltas recorded so far, whether or not the call has returned
RecordedDeltas == IF vi.pc = "done" THEN vi.result.deltaHistory ELSE vi.deltaHistory

\* at most maxIterations deltas are recorded, every one but the last is at
\* least the tolerance, a further sweep is only started while every recorded
\* delta is, and a call that returns before its budget is used has a last
\* delta below the tolerance
SweepsStopAtFirstSmallDelta ==
    vi.pc \in {"loop", "extract", "thrown", "done"} =>
        LET hist == RecordedDeltas
            tol == ToleranceOf(config)
        IN  /\ Len(hist) <= MaxIterationsOf(config)
            /\ \A i \in 1..(Len(hist) - 1) : RLe(tol, hist[i])
            /\ (vi.pc = "loop" /\ Len(hist) >= 1) => RLe(tol, hist[Len(hist)])
            /\ vi.pc = "extract" => RLt(hist[Len(hist)], tol)
            /\ vi.pc = "done" =>
                  /\ vi.result.iterations = Len(hist)
                  /\ Len(hist) < MaxIterationsOf(config) => RLt(hist[Len(hist)], tol)

\* a step that runs a sweep records exactly one delta, the largest change of
\* a state's value made by that sweep
SweepRecordsLargestChange ==
    (vi.pc = "loop" /\ vi'.pc \in {"loop", "extract", "thrown"}) =>
        /\ Len(vi'.deltaHistory) = Len(vi.deltaHistory) + 1
        /\ vi'.deltaHistory[Len(vi'.deltaHistory)]
              = MaxDiff(vi.valueFunction, vi'.valueFunction)

\* C21: valueIteration runs whole sweeps one after another, each recording
\* delta = max over states of |V_new(s) - V_old(s)|, and stops right after the
\* first sweep whose delta is below tolerance or after maxIterations sweeps:
\* iterations <= maxIterations, every recorded delta except the last is
\* >= tolerance, and iterations < maxIterations implies that the last
\* recorded delta is < tolerance.
C21_StopsAfterFirstSweepBelowTolerance ==
    []SweepsStopAtFirstSmallDelta /\ [][SweepRecordsLargestChange]_vars

\* a call that returned after two sweeps within a larger budget: a delta at
\* or above the tolerance, then a positive one below it
C21_Witness ==
    /\ VIDone
    /\ MaxIterationsOf(config) > 2
    /\ vi.result.iterations = 2
    /\ RLe(ToleranceOf(config), vi.result.deltaHistory[1])
    /\ RLt(vi.result.deltaHistory[2], ToleranceOf(config))
    /\ RLt(Zero, vi.result.deltaHistory[2])

(***************************************************************************)
(* Keys with an empty outcome list (checked under SpecSim)                 *)
(***************************************************************************)
HasEmptyKey(m) == \E e \in Range(m.transitions) : e.outcomes = <<>>

\* the configuration valueIteration is compared under
EmptyKeyConfig == MkConfig(MaxDecimalSweeps, Undef, Undef)

\* valueIteration returns the same values and policy without the empty keys
SameSolutionWithoutEmptyKeys(m) ==
    LET with == RunVI(m, EmptyKeyConfig)
        without == RunVI(WithoutEmptyKeys(m), EmptyKeyConfig)
    IN  /\ with.valueFunction = without.valueFunction
        /\ with.bestPolicy = without.bestPolicy

\* simulateEpisode can return the same results without the empty keys
SameEpisodesWithoutEmptyKeys(m, start, maxSteps) ==
    simulateEpisode(m, start, maxSteps)
        = simulateEpisode(WithoutEmptyKeys(m), start, maxSteps)

\* the step machine returns only results that simulateEpisode, as a function
\* of its arguments, gives
ResultIsOfSimulateEpisode ==
    SimReturned => sim.result \in simulateEpisode(mdp, startState, sim.maxSteps)

\* C22: a key "s|a" mapped to an empty outcome list is treated as an absent
\* key: on an MDP with such a key, valueIteration returns the same
\* valueFunction and bestPolicy as on the MDP with the key removed, and
\* simulateEpisode from any start state has the same set of possible results
\* on both.
C22_EmptyListIsAbsentKey ==
    (sim.pc = "loop" /\ sim.step = 0 /\ HasEmptyKey(mdp)) =>
        /\ SameSolutionWithoutEmptyKeys(mdp)
        /\ SameEpisodesWithoutEmptyKeys(mdp, startState, sim.maxSteps)

(***************************************************************************)
(* monteCarloPolicySearch's improvement step (checked under SpecSolver)    *)
(***************************************************************************)
\* the average return of the ten trial episodes of policy p with the action
\* of `state` replaced by `action`
TrialAverage(m, start, p, state, action) ==
    RDiv(RMul(R(MCTrialEpisodes),
              simulateEpisodeWithPolicy(m, [p EXCEPT ![state] = action], start)),
         R(MCTrialEpisodes))

\* the action the improvement loop of a round stores for `state` when the
\* round's policy is p
ActionAfterTrials(m, start, episodes, p, state) ==
    MCTryActions(m, start, p, state, actionsFromState(m, state),
                 Len(actionsFromState(m, state)),
                 MCAvgReward(m, start, episodes, p)).bestAction

\* C23: in a round of monteCarloPolicySearch the action of a state is
\* replaced by an alternative only if the alternative's average return over
\* its 10 trial episodes is strictly greater than the current estimate, which
\* is at least the round's average reward of the current policy; an
\* alternative whose average return is lower never replaces the current
\* action.  Stated for every policy a round can start from; at most one
\* state of the MDPs checked has more than one action, so that policy is the
\* one its alternatives are tried against.
C23_SwapsOnlyForBetterAverage ==
    run.solver = "monteCarloPolicySearch" =>
        \A p \in InitialPolicies(mdp) : \A s \in Deciding(mdp) :
            LET chosen == ActionAfterTrials(mdp, startState, EpisodesOf(config), p, s)
            IN  (Len(actionsFromState(mdp, s)) > 1 /\ chosen # p[s]) =>
                    RGt(TrialAverage(mdp, startState, p, s, chosen),
                        MCAvgReward(mdp, startState, EpisodesOf(config), p))

(***************************************************************************)
(* The variants of the configuration sweeps (checked under SpecSweep)      *)
(***************************************************************************)
\* the base MDP's own discount factor
BaseGamma(baseMdp) == OrElse(baseMdp.gamma, DefaultGamma)

\* the discount factor variant k is meant to be solved with
VariantGamma(baseMdp, k) ==
    IF k <= Len(GammaValues) THEN GammaValues[k] ELSE BaseGamma(baseMdp)

\* the factor the rewards of variant k are meant to be multiplied by
VariantScale(k) ==
    IF k <= Len(GammaValues) THEN One ELSE RewardScales[k - Len(GammaValues)]

\* every reward of testMdp is the base MDP's reward (0 when absent) times
\* scale, and nothing else of the transitions differs
RewardsScaledBy(baseMdp, testMdp, scale) ==
    /\ Len(testMdp.transitions) = Len(baseMdp.transitions)
    /\ \A i \in 1..Len(baseMdp.transitions) :
          LET b == baseMdp.transitions[i]
              t == testMdp.transitions[i]
          IN  /\ t.state = b.state /\ t.action = b.action
              /\ Len(t.outcomes) = Len(b.outcomes)
              /\ \A j \in 1..Len(b.outcomes) :
                    /\ t.outcomes[j].nextState = b.outcomes[j].nextState
                    /\ t.outcomes[j].probability = b.outcomes[j].probability
                    /\ OrElse(t.outcomes[j].reward, Zero)
                          = RMul(OrElse(b.outcomes[j].reward, Zero), scale)

\* valueIteration, the solver of optimizeMDPConfiguration and the first
\* method of robustOptimizeMDP, solves testMdp with the discount factor g
SolvedWithGamma(testMdp, c, g) ==
    /\ GammaOf(testMdp, c) = g
    /\ RunVI(testMdp, c) = RunVI(testMdp, [c EXCEPT !.gamma = Some(g)])

\* the MDPs recorded in optimizationHistory are the variants that did not
\* fail, in the order of the grids
HistoryHoldsVariants ==
    LET tried == SelectSeq([k \in 1..Len(Variants(mdp)) |-> k],
                           LAMBDA k : \A i \in 1..Len(sweep.failed) : sweep.failed[i] # k)
        history == sweep.value.optimizationHistory
    IN  /\ Len(history) = Len(tried)
        /\ \A i \in 1..Len(history) : history[i].mdp = Variants(mdp)[tried[i]]

\* C24: in the configuration sweeps the solver run for the variant of each g
\* of the grid 0.7, 0.8, 0.9, 0.95, 0.99 discounts with g, and the run for the
\* variant of each multiplier 0.5, 1.0, 1.5, 2.0 sees every reward multiplied
\* by it and discounts with the base MDP's discount factor, whatever the
\* configuration (config.gamma set included).
C24_VariantsAreSolvedAsBuilt ==
    /\ sweep.pc = "run" =>
          \A k \in 1..Len(Variants(mdp)) :
              /\ RewardsScaledBy(mdp, Variants(mdp)[k], VariantScale(k))
              /\ SolvedWithGamma(Variants(mdp)[k], config, VariantGamma(mdp, k))
    /\ sweep.pc = "resolved" => HistoryHoldsVariants

\* the same restricted to the configurations that leave config.gamma out
C24_WithoutConfiguredGamma ==
    config.gamma = Undef => C24_VariantsAreSolvedAsBuilt

(***************************************************************************)
(* Episodes of qLearning and sarsa (checked under SpecSolver)              *)
(***************************************************************************)
\* state s has one action, and that action one outcome
HasOneWay(m, s) ==
    /\ Len(actionsFromState(m, s)) = 1
    /\ Len(transitionsFor(m, s, actionsFromState(m, s)[1])) = 1

\* the only transition that can be sampled in s
OnlyWay(m, s) == transitionsFor(m, s, actionsFromState(m, s)[1])[1]

\* from s every episode samples the same transitions until it enters a state
\* without actions; the MDPs of the model are acyclic
RECURSIVE IsSingleTrack(_, _)
IsSingleTrack(m, s) ==
    \/ actionsFromState(m, s) = <<>>
    \/ HasOneWay(m, s) /\ IsSingleTrack(m, OnlyWay(m, s).nextState)

\* the undiscounted sum of the rewards of the transitions of the track from s
RECURSIVE TrackReward(_, _)
TrackReward(m, s) ==
    IF actionsFromState(m, s) = <<>> THEN Zero
    ELSE RAdd(OrElse(OnlyWay(m, s).reward, Zero),
              TrackReward(m, OnlyWay(m, s).nextState))

\* the state of the track from s whose transition enters a state without
\* actions
RECURSIVE LastDeciding(_, _)
LastDeciding(m, s) ==
    IF actionsFromState(m, OnlyWay(m, s).nextState) = <<>> THEN s
    ELSE LastDeciding(m, OnlyWay(m, s).nextState)

\* on a single track every episode adds up the rewards of the whole track,
\* and the transition that enters the terminal state has updated its Q-value
\* (away from the initial 0 when its reward is not 0)
EpisodesCountEveryTransition ==
    LET last == LastDeciding(mdp, startState)
        a == actionsFromState(mdp, last)[1]
    IN  /\ \A i \in 1..Len(run.result.learningCurve) :
              run.result.learningCurve[i] = TrackReward(mdp, startState)
        /\ (Len(run.result.learningCurve) >= 1
               /\ OrElse(OnlyWay(mdp, last).reward, Zero) # Zero)
              => QLookup(run.result.qTable, last, a) # Zero

\* C25: in qLearning and in sarsa every transition sampled during an
\* episode, the one that enters a terminal state included, updates Q(s,a) and
\* adds its reward to the episode total, so each learningCurve entry is the
\* undiscounted sum of the rewards of all transitions sampled in that
\* episode (at most 100 of them).
C25_EveryTransitionIsLearnedFrom ==
    (SolverReturned({"qLearning", "sarsa"})
        /\ actionsFromState(mdp, startState) # <<>>
        /\ IsSingleTrack(mdp, startState)) =>
            /\ EpisodesCountEveryTransition
            /\ QLMaxSteps = 100
            /\ SarsaMaxSteps = 100

\* the same for qLearning alone
C25_QLearningPart ==
    run.solver = "qLearning" => C25_EveryTransitionIsLearnedFrom

(***************************************************************************)
(* Claims about the Home component (checked under SpecPage)                *)
(***************************************************************************)
\* v passed schema parsing and the probability-mass check
IsValidated(v) ==
    /\ SchemaAccepts(v)
    /\ \A e \in Range(v.transitions) :
          RLe(RAbs(RSub(MassOf(e.outcomes), One)), MassTolerance)

\* the MDP the page holds is a validated one, and the start state is one of
\* its states
PageHoldsValidatedMdp ==
    page.mdp # Undef => IsValidated(page.mdp[1]) /\ page.start \in StateSet(page.mdp[1])

\* a render of a text that fails parsing or validation leaves mdp null, one
\* of a text that passes leaves the MDP parsed from that text
RenderDecidesMdp ==
    handleRender =>
        page'.mdp = IF page.json.parses /\ IsValidated(page.json.value)
                    THEN Some(page.json.value) ELSE Undef

\* runMonteCarlo is called with the MDP and the start state the page holds
SimUsesPageMdp ==
    handleSim =>
        /\ page.mdp # Undef
        /\ page'.result # Undef
        /\ page'.result[1].mdp = page.mdp[1]
        /\ page'.result[1].start = page.start
        /\ IsValidated(page'.result[1].mdp)
        /\ page'.result[1].start \in StateSet(page'.result[1].mdp)

\* C26: after any sequence of handleRender, start-state selection and
\* handleSim, runMonteCarlo is invoked only with the MDP that passed schema
\* parsing and validateTransitionMass in the most recent render and with a
\* start state that is one of its states; a render that fails parsing or the
\* mass check sets mdp to null, so that no simulation can run until a later
\* render succeeds.
C26_SimulatesOnlyValidatedMdp ==
    /\ []PageHoldsValidatedMdp
    /\ [][RenderDecidesMdp /\ SimUsesPageMdp]_vars
    /\ [](page.mdp = Undef => ~ENABLED handleSim)

\* a simulation of the MDP with states B, C from the start state the render
\* chose, while the editor already holds a text that would be rejected
C26_Witness ==
    /\ page.result # Undef
    /\ page.result[1].start = "B"
    /\ page.result[1].mdp.states = Some(<<"B", "C">>)
    /\ ~page.json.parses

(***************************************************************************)
(* Claims about evaluatePolicy (checked under SpecEvaluate)                *)
(***************************************************************************)
\* the states visited and the actions taken so far by the episode
EpisodePath == IF sim.pc = "returned" THEN sim.result.path ELSE sim.path

EpisodeActions == IF sim.pc = "returned" THEN sim.result.actions ELSE sim.actions

\* C27: every step of an episode simulated by evaluatePolicy follows the
\* optimized policy: the action taken in state s is
\* optimizationResult.bestPolicy[s], and no other action is ever taken or
\* contributes a transition or a reward.
C27_EvaluationFollowsPolicy ==
    agent.pc \in {"evaluating", "evaluated"} =>
        \A i \in 1..Len(EpisodeActions) :
            EpisodeActions[i] = agent.optimizationResult[1].bestPolicy[EpisodePath[i]]

(***************************************************************************)
(* The shape of an EpisodeResult (checked under SpecSim)                   *)
(***************************************************************************)
\* the number of occurrences of s in path
Occurrences(path, s) == Cardinality({i \in 1..Len(path) : path[i] = s})

\* visited[s] ?? 0
VisitsOf(visited, s) == IF s \in DOMAIN visited THEN visited[s] ELSE 0

\* visited counts the occurrences in path; path has steps + 1 elements, the
\* last being terminal, and actions has steps elements
ResultIsConsistent(r) ==
    /\ \A s \in Range(r.path) \cup DOMAIN r.visited :
          VisitsOf(r.visited, s) = Occurrences(r.path, s)
    /\ Len(r.path) = r.steps + 1
    /\ r.terminal = r.path[Len(r.path)]
    /\ Len(r.actions) = r.steps

\* C28: in every EpisodeResult returned by simulateEpisode, whatever the
\* reason the episode ended, visited[s] is the number of occurrences of s in
\* path for every state s, path.length = steps + 1, terminal is the last
\* element of path and actions.length = steps.
C28_VisitsCountPathOccurrences == SimReturned => ResultIsConsistent(sim.result)

\* the same for the episodes that end in a state without actions or on an
\* empty outcome list
C28_ExceptAtMaxSteps ==
    (SimReturned /\ sim.exit # "maxSteps") => ResultIsConsistent(sim.result)

(***************************************************************************)
(* Claims about runMonteCarlo (checked under SpecMc)                       *)
(***************************************************************************)
\* the sum of the counts of a counter table
RECURSIVE SumCounts(_)
SumCounts(table) ==
    IF DOMAIN table = {} THEN 0
    ELSE LET k == CHOOSE x \in DOMAIN table : TRUE
         IN  table[k] + SumCounts([x \in DOMAIN table \ {k} |-> table[x]])

McReturned == mc.pc = "returned"

C29_SixPaths ==
    /\ McReturned
    /\ SumCounts(mc.summary.terminalDist) = 6
    /\ Cardinality(DOMAIN mc.summary.terminalDist) = 6
    /\ Len(mc.summary.pathAnalysis.mostCommonPaths) = 5

(***************************************************************************)
(* Claims about HyperparameterTuner (checked under SpecTuner)              *)
(***************************************************************************)
TuningRunFinished == tuner.pc = "idle" /\ tuner.runs >= 1

\* t is a trial of the current run with the largest score of the run
IsBestTrialOfRun(t) ==
    /\ \E i \in 1..Len(tuner.tuningHistory) : tuner.tuningHistory[i] = t
    /\ \A i \in 1..Len(tuner.tuningHistory) :
          ~RGt(tuner.tuningHistory[i].score, t.score)

\* C30: for every run of startTuning, the first one and any later one, when
\* the trial loop has finished the displayed bestResult is a trial of that
\* run whose score is maximal among the trials of that run, and
\* onTuningComplete has been called exactly once, with that trial's config
\* and result.
C30_BestTrialIsShownAndReported ==
    TuningRunFinished =>
        /\ tuner.bestResult # Undef
        /\ IsBestTrialOfRun(tuner.bestResult[1])
        /\ tuner.called = <<[config |-> tuner.bestResult[1].config,
                             result |-> tuner.bestResult[1].result]>>

\* what the first run does: every trial is stored, so the last one is shown,
\* and onTuningComplete is not called
C30_FirstRunShowsLastTrial ==
    (TuningRunFinished /\ tuner.runs = 1) =>
        /\ tuner.bestResult = Some(tuner.tuningHistory[Len(tuner.tuningHistory)])
        /\ tuner.called = <<>>

\* what a later run does: the trials are compared with the result the
\* previous run left on display, which is also what onTuningComplete gets
C30_LaterRunReportsPreviousResult ==
    (TuningRunFinished /\ tuner.runs > 1) =>
        /\ tuner.called = <<[config |-> tuner.closure[1].config,
                             result |-> tuner.closure[1].result]>>
        /\ tuner.bestResult # Undef =>
              RGt(tuner.bestResult[1].score, tuner.closure[1].score)

\* a first run of three trials in which the best trial was not the last
C30_FirstRunLosesBest ==
    /\ TuningRunFinished
    /\ tuner.runs = 1
    /\ Len(tuner.tuningHistory) = 3
    /\ ~IsBestTrialOfRun(tuner.bestResult[1])

\* a second run that ends with nothing on display
C30_SecondRunShowsNothing ==
    /\ TuningRunFinished
    /\ tuner.runs = 2
    /\ tuner.bestResult = Undef
    /\ tuner.called # <<>>

====
